---- MODULE Spec2Model ----
(***************************************************************************)
(* Two-phase revised simplex engine of cnvx (crates/cnvx-lp/src/simplex.rs)*)
(* with the model algebra of cnvx-core and the dense linear solve of       *)
(* cnvx-math.                                                              *)
(*                                                                         *)
(* Numbers: an f64 is modelled as an exact rational <<n, d>> (d > 0, in    *)
(* lowest terms).  Every comparison against a tolerance (1e-8, 1e-12,      *)
(* 1e-15) is made as the code makes it.  Indices are 0-based as in the     *)
(* code; a Vec is a sequence, element i of the Vec being v[i + 1].         *)
(* An index outside a Vec is a panic, as in Rust.                          *)
(***************************************************************************)
EXTENDS Integers, Sequences, FiniteSets, TLC

(***************************************************************************)
(* Bounds of the explored inputs.                                          *)
(***************************************************************************)
MaxVars == 2
MaxCons == 2
MaxIterSmall == 1

(***************************************************************************)
(* Program constants.                                                      *)
(***************************************************************************)
TolExp == 8
DefaultMaxIterations == 1000
ZeroExp == 12
SkipExp == 15

(***************************************************************************)
(* f64 arithmetic on exact rationals.                                      *)
(***************************************************************************)
Abs(i) == IF i < 0 THEN -i ELSE i

RECURSIVE GCD(_, _)
GCD(x, y) == IF y = 0 THEN x ELSE GCD(y, x % y)

Norm(n, d) ==
    LET g == GCD(Abs(n), Abs(d))
        s == IF d < 0 THEN -1 ELSE 1
    IN  IF n = 0 THEN <<0, 1>> ELSE <<s * (n \div g), s * (d \div g)>>

R(i) == <<i, 1>>
Zero == <<0, 1>>
One == <<1, 1>>

RAdd(x, y) == Norm(x[1] * y[2] + y[1] * x[2], x[2] * y[2])
RNeg(x) == <<-x[1], x[2]>>
RSub(x, y) == RAdd(x, RNeg(y))
RMul(x, y) == Norm(x[1] * y[1], x[2] * y[2])
RDiv(x, y) == Norm(x[1] * y[2], x[2] * y[1])
RAbs(x) == <<Abs(x[1]), x[2]>>
RLt(x, y) == x[1] * y[2] < y[1] * x[2]
RGt(x, y) == RLt(y, x)

RECURSIVE Shift10(_, _)
Shift10(q, k) == IF k = 0 THEN q ELSE Shift10(q \div 10, k - 1)

\* x > 10^-k
GtEps(x, k) == x[1] > 0 /\ Shift10(x[2] \div x[1], k) = 0
\* x < 10^-k
LtEps(x, k) == x[1] <= 0 \/ Shift10((x[2] - 1) \div x[1], k) >= 1
\* x >= -10^-k
GeNegEps(x, k) == ~GtEps(RNeg(x), k)

\* A Vec holding the elements of f, each evaluated once.
Vec(f) == f \o <<>>

RECURSIVE SumSeq(_)
SumSeq(s) == IF s = <<>> THEN Zero ELSE RAdd(SumSeq(SubSeq(s, 1, Len(s) - 1)), s[Len(s)])

(***************************************************************************)
(* cnvx-math: DenseMatrix, row-major.                                      *)
(***************************************************************************)
MatNew(rows, cols) ==
    [rows |-> rows, cols |-> cols, data |-> Vec([k \in 1..(rows * cols) |-> Zero])]

\* get(r, c) indexes data[r * cols + c]; only the Vec's length is checked.
GetOOB(M, r, c) == r * M.cols + c >= Len(M.data)
Get(M, r, c) == M.data[r * M.cols + c + 1]
Set(M, r, c, v) == [M EXCEPT !.data[r * M.cols + c + 1] = v]

Transpose(M) ==
    [rows |-> M.rows, cols |-> M.rows,
     data |-> Vec([k \in 1..(M.rows * M.rows) |->
                     Get(M, (k - 1) % M.rows, (k - 1) \div M.rows)])]

PivotRowNoSearch(aug, n, col) == col

\* The partial-pivot search of one elimination column: the first row among
\* col..n-1 holding the largest absolute value (a later row replaces the
\* pivot only when strictly larger).
PivotRow(aug, n, col) ==
    CHOOSE p \in col..(n - 1) :
        /\ \A r \in col..(n - 1) : ~RGt(RAbs(aug[r + 1][col + 1]), RAbs(aug[p + 1][col + 1]))
        /\ \A r \in col..(p - 1) : RLt(RAbs(aug[r + 1][col + 1]), RAbs(aug[p + 1][col + 1]))

SwapRows(aug, p, q) ==
    Vec([r \in 1..Len(aug) |-> IF r = p + 1 THEN aug[q + 1]
                                ELSE IF r = q + 1 THEN aug[p + 1] ELSE aug[r]])

EliminateCol(aug, n, col) ==
    LET diag == aug[col + 1][col + 1]
        pivot_row == Vec([k \in 1..(n + 1) |->
                        IF k - 1 >= col THEN RDiv(aug[col + 1][k], diag)
                        ELSE aug[col + 1][k]])
    IN  Vec([r \in 1..n |->
            IF r - 1 = col THEN pivot_row
            ELSE LET fac == aug[r][col + 1]
                 IN  IF LtEps(RAbs(fac), SkipExp) THEN aug[r]
                     ELSE Vec([k \in 1..(n + 1) |->
                             IF k - 1 >= col
                             THEN RSub(aug[r][k], RMul(fac, pivot_row[k]))
                             ELSE aug[r][k]])])

RECURSIVE GaussFrom(_, _, _)
GaussFrom(aug, n, col) ==
    IF col >= n THEN [ok |-> TRUE, aug |-> aug]
    ELSE LET p == PivotRow(aug, n, col)
             maxv == RAbs(aug[p + 1][col + 1])
         IN  IF LtEps(maxv, ZeroExp) THEN [ok |-> FALSE, aug |-> aug]
             ELSE GaussFrom(EliminateCol(SwapRows(aug, p, col), n, col), n, col + 1)

\* The elimination carried out in rhs itself: a singular pivot leaves the
\* partly eliminated right-hand side behind.
gaussian_elimination_in_place(M, rhs) ==
    LET n == M.rows IN
    IF Len(rhs) # n
    THEN [ok |-> FALSE, err |-> "rhs length mismatch", rhs |-> rhs]
    ELSE LET aug == Vec([i \in 1..n |-> Vec([j \in 1..(n + 1) |->
                        IF j <= n THEN Get(M, i - 1, j - 1) ELSE rhs[i]])])
             g == GaussFrom(aug, n, 0)
         IN  [ok |-> g.ok, err |-> IF g.ok THEN "" ELSE "singular matrix",
              rhs |-> Vec([i \in 1..n |-> g.aug[i][n + 1]])]

\* Result of gaussian_elimination(rhs): ok, the error text, and rhs afterwards.
gaussian_elimination(M, rhs) ==
    LET n == M.rows IN
    IF Len(rhs) # n
    THEN [ok |-> FALSE, err |-> "rhs length mismatch", rhs |-> rhs]
    ELSE LET aug == Vec([i \in 1..n |-> Vec([j \in 1..(n + 1) |->
                        IF j <= n THEN Get(M, i - 1, j - 1) ELSE rhs[i]])])
             g == GaussFrom(aug, n, 0)
         IN  IF g.ok
             THEN [ok |-> TRUE, err |-> "", rhs |-> Vec([i \in 1..n |-> g.aug[i][n + 1]])]
             ELSE [ok |-> FALSE, err |-> "singular matrix", rhs |-> rhs]

\* DenseGaussElim::solve: the same elimination, on the borrowed matrix.
DenseGaussElim_solve(M, rhs) == gaussian_elimination(M, rhs)

(***************************************************************************)
(* cnvx-core: the model algebra.  An Option is a sequence of length 0 or 1.*)
(***************************************************************************)
LinTerm(var, coeff) == [var |-> var, coeff |-> coeff]
LinExpr(terms, constant) == [terms |-> terms, constant |-> constant]

\* LinExpr::new(var, coeff)
LinExprNew(var, coeff) == LinExpr(<<LinTerm(var, coeff)>>, Zero)
\* LinExpr::constant(c)
LinExprConstant(c) == LinExpr(<<>>, c)

\* LinExpr + LinExpr
AddLinExprLinExpr(self, rhs) ==
    LinExpr(self.terms \o rhs.terms, RAdd(self.constant, rhs.constant))
\* LinExpr + VarId
AddLinExprVarId(self, rhs) ==
    [self EXCEPT !.terms = Append(@, LinTerm(rhs, One))]
AddVarIdLinExprNoConstant(self, rhs) ==
    LinExpr(<<LinTerm(self, One)>> \o rhs.terms, Zero)
\* VarId + LinExpr
AddVarIdLinExpr(self, rhs) ==
    LinExpr(<<LinTerm(self, One)>> \o rhs.terms, rhs.constant)
\* VarId + VarId
AddVarIdVarId(self, rhs) ==
    LinExpr(<<LinTerm(self, One), LinTerm(rhs, One)>>, Zero)
\* LinExpr += LinExpr: self after the call.
AddAssignLinExpr(self, rhs) ==
    [self EXCEPT !.terms = @ \o rhs.terms, !.constant = RAdd(@, rhs.constant)]
\* LinExpr += VarId: self after the call.
AddAssignVarId(self, rhs) ==
    [self EXCEPT !.terms = Append(@, LinTerm(rhs, One))]
\* f64 + LinExpr
AddF64LinExpr(self, rhs) == [rhs EXCEPT !.constant = RAdd(@, self)]
\* LinExpr + f64
AddLinExprF64(self, rhs) == [self EXCEPT !.constant = RAdd(@, rhs)]
\* VarId * f64
MulVarIdF64(self, rhs) == LinExprNew(self, rhs)
\* f64 * VarId
MulF64VarId(self, rhs) == MulVarIdF64(rhs, self)

\* Model::add_var: the pushed Var.
NewVar(id) ==
    [id |-> id, lb |-> <<Zero>>, ub |-> <<>>, is_integer |-> FALSE, is_artificial |-> FALSE]

\* VarBuilder::integer
VarInteger(v) == [v EXCEPT !.is_integer = TRUE]
\* VarBuilder::binary
VarBinary(v) == [v EXCEPT !.is_integer = TRUE, !.lb = <<Zero>>, !.ub = <<One>>]

\* Model::new
EmptyModel == [vars |-> <<>>, constraints |-> <<>>, objective |-> <<>>]

\* A call on the model or on a VarBuilder leaves the model, the VarBuilder it
\* returns (none when it returns something else or does not return) and the
\* message of the panic it raises ("" when it returns).
Returned(m, b) == [model |-> m, builder |-> b, panic |-> ""]
Raised(m, msg) == [model |-> m, builder |-> <<>>, panic |-> msg]

\* Model::add_var: VarBuilder { model: self, var: id }
add_var(m) ==
    LET id == Len(m.vars)
    IN  Returned([m EXCEPT !.vars = Append(@, NewVar(id))], <<id>>)

\* lower_bound as its commented-out body has it: store the bound, return self.
lower_bound_stored(m, var, lb) == Returned([m EXCEPT !.vars[var + 1].lb = <<lb>>], <<var>>)

\* VarBuilder::lower_bound: panic!("Lower bound not implemented yet")
lower_bound(m, var, lb) == Raised(m, "Lower bound not implemented yet")

\* VarBuilder::upper_bound: panic!("Upper bound not implemented yet")
upper_bound(m, var, ub) == Raised(m, "Upper bound not implemented yet")

integer(m, var) == Returned([m EXCEPT !.vars[var + 1] = VarInteger(@)], <<var>>)
binary(m, var) == Returned([m EXCEPT !.vars[var + 1] = VarBinary(@)], <<var>>)

\* VarBuilder::finish: the VarId; the builder is consumed.
finish(var) == var

\* model += constraint
add_assign(m, cons) == [m EXCEPT !.constraints = Append(@, cons)]
add_objective(m, obj) == [m EXCEPT !.objective = <<obj>>]

\* The constraint  coef * x_v  cmp  rhs  (LinExpr::leq, geq, eq on VarId * f64).
Con(v, coef, cmp, rhs) ==
    [expr |-> LinExpr(<<LinTerm(v, R(coef))>>, Zero), rhs |-> R(rhs), cmp |-> cmp]

(***************************************************************************)
(* cnvx-lp: validate.rs                                                    *)
(***************************************************************************)
\* check_lp as it would be without the test of the objective.
check_lp_unchecked(m) == "Ok"

check_lp(m) == IF m.objective = <<>> THEN "NoObjective" ELSE "Ok"

(***************************************************************************)
(* cnvx-lp: SimplexState::new (tableau construction).                      *)
(***************************************************************************)
IsIneq(cons) == cons.cmp \in {"Leq", "Geq"}

RECURSIVE CountIneq(_)
CountIneq(cs) ==
    IF cs = <<>> THEN 0
    ELSE CountIneq(Tail(cs)) + (IF IsIneq(Head(cs)) THEN 1 ELSE 0)

\* n_total with one more column for every variable that has an upper bound.
NTotalWithUpperBounds(m) ==
    Len(m.vars) + 2 * CountIneq(m.constraints)
        + Cardinality({i \in 1..Len(m.vars) : m.vars[i].ub # <<>>})

\* n_total: every Leq or Geq constraint adds 2 to the column count.
NTotal(m) == Len(m.vars) + 2 * CountIneq(m.constraints)

\* The coefficient stored without regard to the sense.
ObjCoeffAsGiven(sense, coeff) == coeff

ObjCoeff(sense, coeff) == IF sense = "Maximize" THEN coeff ELSE RNeg(coeff)

\* c[term.var.0] = ...: each term assigns its entry of c.
RECURSIVE SetObjective(_, _, _)
SetObjective(c, sense, terms) ==
    IF terms = <<>> THEN c
    ELSE SetObjective([c EXCEPT ![Head(terms).var + 1] = ObjCoeff(sense, Head(terms).coeff)],
                      sense, Tail(terms))

\* a.set(i, term.var.0, term.coeff): each term assigns its entry of row i.
RECURSIVE SetRowTerms(_, _, _)
SetRowTerms(M, i, terms) ==
    IF terms = <<>> THEN M
    ELSE SetRowTerms(Set(M, i, Head(terms).var, Head(terms).coeff), i, Tail(terms))

SetExtra(M, i, cons, extra_idx) ==
    IF cons.cmp = "Leq" THEN Set(M, i, extra_idx, One)
    ELSE IF cons.cmp = "Geq" THEN Set(M, i, extra_idx, RNeg(One))
    ELSE M

RECURSIVE FillRows(_, _, _, _)
FillRows(M, cs, i, extra_idx) ==
    IF i >= Len(cs) THEN M
    ELSE FillRows(SetExtra(SetRowTerms(M, i, cs[i + 1].expr.terms), i, cs[i + 1], extra_idx),
                  cs, i + 1,
                  IF IsIneq(cs[i + 1]) THEN extra_idx + 1 ELSE extra_idx)

\* new() panics when a term's variable index is outside c or outside A's data.
NewPanics(m) ==
    \/ /\ m.objective # <<>>
       /\ \E k \in 1..Len(m.objective[1].expr.terms) :
              m.objective[1].expr.terms[k].var >= NTotal(m)
    \/ \E i \in 1..Len(m.constraints) :
          \E k \in 1..Len(m.constraints[i].expr.terms) :
              (i - 1) * NTotal(m) + m.constraints[i].expr.terms[k].var
                  >= Len(m.constraints) * NTotal(m)

New(m) ==
    LET n_vars == Len(m.vars)
        n_cons == Len(m.constraints)
        n_total == NTotal(m)
        c0 == [j \in 1..n_total |-> Zero]
    IN  [iteration |-> 0,
         basis |-> <<>>,
         non_basis |-> [j \in 1..n_vars |-> j - 1],
         x_b |-> [i \in 1..n_cons |-> Zero],
         a |-> FillRows(MatNew(n_cons, n_total), m.constraints, 0, n_vars),
         b |-> [i \in 1..n_cons |-> m.constraints[i].rhs],
         c |-> IF m.objective = <<>> THEN c0
               ELSE SetObjective(c0, m.objective[1].sense, m.objective[1].expr.terms),
         objective |-> Zero,
         status |-> "NotSolved",
         minimise |-> IF m.objective = <<>> THEN FALSE
                      ELSE m.objective[1].sense = "Minimize"]

(***************************************************************************)
(* init_basis                                                              *)
(***************************************************************************)
IsNonzero(v) == GtEps(RAbs(v), ZeroExp)
IsOne(v) == LtEps(RAbs(RSub(v, One)), ZeroExp)

\* The row an identity-like column j covers, as a sequence of length 0 or 1:
\* every nonzero entry of the column is 1 and there is exactly one of them.
OneRow(a, j) ==
    LET nz == {i \in 0..(a.rows - 1) : IsNonzero(Get(a, i, j))}
    IN  IF (\A i \in nz : IsOne(Get(a, i, j))) /\ Cardinality(nz) = 1
        THEN <<CHOOSE i \in nz : TRUE>>
        ELSE <<>>

\* basis[r] after the scan of columns 0..n-1: the first column covering row r.
CoverOf(a, r) ==
    LET cover == {j \in 0..(a.cols - 1) : OneRow(a, j) = <<r>>}
    IN  IF cover = {} THEN <<>>
        ELSE <<CHOOSE j \in cover : \A k \in cover : j <= k>>

RECURSIVE FilterSeq(_, _)
FilterSeq(s, keep) ==
    IF s = <<>> THEN <<>>
    ELSE (IF Head(s) \in keep THEN <<Head(s)>> ELSE <<>>) \o FilterSeq(Tail(s), keep)

Range0(lo, hi) == [k \in 1..(IF hi > lo THEN hi - lo ELSE 0) |-> lo + k - 1]

init_basis(st) ==
    LET m == st.a.rows
        n == st.a.cols
        basis == [r \in 1..m |-> CoverOf(st.a, r - 1)]
        used == {j \in 0..(n - 1) : \E r \in 1..m : basis[r] = <<j>>}
    IN  IF \A r \in 1..m : basis[r] # <<>>
        THEN [st EXCEPT !.basis = [r \in 1..m |-> basis[r][1]],
                        !.non_basis = FilterSeq(Range0(0, n), (0..(n - 1)) \ used)]
        ELSE [st EXCEPT !.basis = Range0(0, m), !.non_basis = Range0(m, n)]

(***************************************************************************)
(* build_bmat, compute_basic_solution                                      *)
(***************************************************************************)
BuildBmatPanics(st) ==
    \E i \in 0..(st.a.rows - 1) : \E j \in 0..(st.a.rows - 1) :
        j >= Len(st.basis) \/ GetOOB(st.a, i, st.basis[j + 1])

build_bmat(st) ==
    LET m == st.a.rows
    IN  [rows |-> m, cols |-> m,
         data |-> Vec([k \in 1..(m * m) |->
                     Get(st.a, (k - 1) \div m, st.basis[((k - 1) % m) + 1])])]

compute_basic_solution(st, bmat) == gaussian_elimination(bmat, st.b)

(***************************************************************************)
(* setup_phase1                                                            *)
(***************************************************************************)
\* setup_phase1 without the sign flip of the rows with b[i] < 0.
setup_phase1_unflipped(st, orig_n) ==
    LET m == st.a.rows
        n == st.a.cols
        a_aug == [rows |-> m, cols |-> n + m,
                  data |-> [k \in 1..(m * (n + m)) |->
                     LET i == (k - 1) \div (n + m)
                         j == (k - 1) % (n + m)
                     IN  IF j < n THEN Get(st.a, i, j)
                         ELSE (IF j - n = i THEN One ELSE Zero)]]
        c_aug == [j \in 1..(n + m) |-> IF j - 1 >= n THEN RNeg(One) ELSE Zero]
        st1 == [st EXCEPT !.a = a_aug, !.c = c_aug,
                          !.basis = Range0(orig_n, orig_n + m),
                          !.non_basis = Range0(0, orig_n),
                          !.x_b = st.b]
    IN  [orig_a |-> st.a, orig_c |-> st.c, state |-> st1,
         panics |-> BuildBmatPanics(st1),
         bmat |-> IF BuildBmatPanics(st1) THEN MatNew(0, 0) ELSE build_bmat(st1)]

setup_phase1(st, orig_n) ==
    LET m == st.a.rows
        n == st.a.cols
        neg(i) == RLt(st.b[i + 1], Zero)
        a_aug == [rows |-> m, cols |-> n + m,
                  data |-> [k \in 1..(m * (n + m)) |->
                     LET i == (k - 1) \div (n + m)
                         j == (k - 1) % (n + m)
                     IN  IF j < n
                         THEN (IF neg(i) THEN RNeg(Get(st.a, i, j)) ELSE Get(st.a, i, j))
                         ELSE (IF j - n = i THEN One ELSE Zero)]]
        b_aug == [i \in 1..m |-> IF neg(i - 1) THEN RNeg(st.b[i]) ELSE st.b[i]]
        c_aug == [j \in 1..(n + m) |-> IF j - 1 >= n THEN RNeg(One) ELSE Zero]
        st1 == [st EXCEPT !.a = a_aug, !.c = c_aug,
                          !.basis = Range0(orig_n, orig_n + m),
                          !.non_basis = Range0(0, orig_n),
                          !.x_b = b_aug]
    IN  [orig_a |-> st.a, orig_c |-> st.c, state |-> st1,
         panics |-> BuildBmatPanics(st1),
         bmat |-> IF BuildBmatPanics(st1) THEN MatNew(0, 0) ELSE build_bmat(st1)]

(***************************************************************************)
(* remove_artificial_from_basis                                            *)
(***************************************************************************)
SetCol(bmat, col, a, j) ==
    [bmat EXCEPT !.data = Vec([k \in 1..Len(bmat.data) |->
        IF (k - 1) % bmat.cols = col THEN Get(a, (k - 1) \div bmat.cols, j)
        ELSE bmat.data[k]])]

\* The first non-basic position holding an original column with a nonzero
\* entry in `row`, as a sequence of length 0 or 1.
ArtPivot(st, row, orig_n) ==
    LET ok == {p \in 1..Len(st.non_basis) :
                  st.non_basis[p] < orig_n /\ IsNonzero(Get(st.a, row, st.non_basis[p]))}
    IN  IF ok = {} THEN <<>> ELSE <<CHOOSE p \in ok : \A q \in ok : p <= q>>

RECURSIVE RemoveFrom(_, _, _, _)
RemoveFrom(st, bmat, orig_n, row) ==
    IF row >= bmat.rows THEN [ok |-> TRUE, state |-> st, bmat |-> bmat]
    ELSE IF st.basis[row + 1] < orig_n THEN RemoveFrom(st, bmat, orig_n, row + 1)
    ELSE LET pv == ArtPivot(st, row, orig_n)
         IN  IF pv # <<>>
             THEN LET j == st.non_basis[pv[1]]
                      leaving == st.basis[row + 1]
                  IN  RemoveFrom([st EXCEPT !.basis[row + 1] = j,
                                            !.non_basis[pv[1]] = leaving],
                                 SetCol(bmat, row, st.a, j), orig_n, row + 1)
             ELSE IF IsNonzero(st.x_b[row + 1])
                  THEN [ok |-> FALSE, state |-> st, bmat |-> bmat]
                  ELSE RemoveFrom(st, bmat, orig_n, row + 1)

remove_artificial_from_basis(st, bmat, orig_n) == RemoveFrom(st, bmat, orig_n, 0)

(***************************************************************************)
(* extract_solution                                                        *)
(***************************************************************************)
\* sol[basis[i]] = x_b[i] for i = 0..m-1 in order: the last such row wins.
SolEntry(st, j) ==
    LET rows == {i \in 1..st.a.rows : st.basis[i] = j}
    IN  IF rows = {} THEN Zero ELSE st.x_b[CHOOSE i \in rows : \A k \in rows : k <= i]

ExtractPanics(st) == st.a.rows > Len(st.basis)

NegIfMin(st, obj) == IF st.minimise THEN RNeg(obj) ELSE obj

extract_solution(st, orig_n) ==
    LET orig == {i \in 1..Len(st.basis) : st.basis[i] < orig_n}
    IN  [sol |-> [j \in 1..orig_n |-> SolEntry(st, j - 1)],
         obj |-> NegIfMin(st, SumSeq([i \in 1..Len(st.basis) |->
                        IF i \in orig THEN RMul(st.c[st.basis[i] + 1], st.x_b[i])
                        ELSE Zero]))]


(***************************************************************************)
(* One iteration of run_simplex: duals, pricing, direction, ratio test,    *)
(* primal update, pivot, objective.                                        *)
(***************************************************************************)
ComputeDualsPanics(st, bmat) ==
    \E i \in 1..bmat.rows : i > Len(st.basis) \/ st.basis[i] >= Len(st.c)

compute_duals(st, bmat) ==
    gaussian_elimination(Transpose(bmat),
                         Vec([i \in 1..bmat.rows |-> st.c[st.basis[i] + 1]]))

ChooseEnteringPanics(st, pi) ==
    \E p \in 1..Len(st.non_basis) :
        \/ st.non_basis[p] >= Len(st.c)
        \/ \E i \in 0..(Len(pi) - 1) : GetOOB(st.a, i, st.non_basis[p])

ReducedCost(st, pi, j) ==
    RSub(st.c[j + 1], SumSeq([i \in 1..Len(pi) |-> RMul(pi[i], Get(st.a, i - 1, j))]))

\* A maximum search that keeps the first of several equal maxima.
MaxByFirst(cand, key) ==
    CHOOSE p \in cand :
        /\ \A q \in cand : ~RGt(key[q], key[p])
        /\ \A q \in cand : q < p => RLt(key[q], key[p])

\* max_by keeps the last of several equal maxima.
MaxByLast(cand, key) ==
    CHOOSE p \in cand :
        /\ \A q \in cand : ~RGt(key[q], key[p])
        /\ \A q \in cand : q > p => RLt(key[q], key[p])

\* A minimum search that keeps the last of several equal minima.
MinByLast(cand, key) ==
    CHOOSE p \in cand :
        /\ \A q \in cand : ~RLt(key[q], key[p])
        /\ \A q \in cand : q > p => RGt(key[q], key[p])

\* min_by keeps the first of several equal minima.
MinByFirst(cand, key) ==
    CHOOSE p \in cand :
        /\ \A q \in cand : ~RLt(key[q], key[p])
        /\ \A q \in cand : q < p => RGt(key[q], key[p])

choose_entering_first_only(st, pi) ==
    IF st.non_basis # <<>> /\ GtEps(ReducedCost(st, pi, st.non_basis[1]), TolExp)
    THEN <<[nb_pos |-> 0, entering |-> st.non_basis[1]]>>
    ELSE <<>>

\* Some((nb_pos, entering)) as a sequence of length 0 or 1.
choose_entering(st, pi) ==
    LET rcs == Vec([p \in 1..Len(st.non_basis) |-> ReducedCost(st, pi, st.non_basis[p])])
        rc(p) == rcs[p]
        cand == {p \in 1..Len(st.non_basis) : GtEps(rc(p), TolExp)}
    IN  IF cand = {} THEN <<>>
        ELSE LET p == MaxByLast(cand, rcs)
             IN  <<[nb_pos |-> p - 1, entering |-> st.non_basis[p]]>>

compute_direction(st, bmat, entering) ==
    gaussian_elimination(bmat, Vec([i \in 1..bmat.rows |-> Get(st.a, i - 1, entering)]))

\* Some((leave_row, theta)) as a sequence of length 0 or 1.
choose_leaving(st, d) ==
    LET cand == {i \in 1..Len(d) : GtEps(d[i], TolExp)}
        theta == [i \in cand |-> RDiv(st.x_b[i], d[i])]
    IN  IF cand = {} THEN <<>>
        ELSE LET i == MinByFirst(cand, theta)
             IN  <<[leave_row |-> i - 1, theta |-> theta[i]]>>

Snap(v) == IF LtEps(RAbs(v), ZeroExp) THEN Zero ELSE v

update_primal(st, d, leave, theta) ==
    [st EXCEPT !.x_b = Vec([i \in 1..Len(st.x_b) |->
        IF i - 1 = leave THEN theta
        ELSE Snap(RSub(st.x_b[i], RMul(theta, d[i])))])]

\* A pivot that records the entering column and drops the leaving one.
PivotStateBasisOnly(st, enter_pos, leave_row, entering) ==
    [st EXCEPT !.basis[leave_row + 1] = entering]

\* pivot: the basis and non-basis entries swapped, column leave_row of B replaced.
PivotState(st, enter_pos, leave_row, entering) ==
    [st EXCEPT !.basis[leave_row + 1] = entering,
               !.non_basis[enter_pos + 1] = st.basis[leave_row + 1]]

\* A pivot that leaves B as it was.
PivotBmatStale(st, bmat, leave_row, entering) == bmat

PivotBmat(st, bmat, leave_row, entering) == SetCol(bmat, leave_row, st.a, entering)

update_objective(st) ==
    [st EXCEPT !.objective =
        SumSeq([i \in 1..Len(st.basis) |-> RMul(st.c[st.basis[i] + 1], st.x_b[i])])]

(***************************************************************************)
(* Results of solve.                                                       *)
(***************************************************************************)
NoResult == [kind |-> "none", error |-> "", values |-> <<>>,
             objective_value |-> <<>>, status |-> ""]
Err(e) == [NoResult EXCEPT !.kind = "err", !.error = e]
Panic == [NoResult EXCEPT !.kind = "panic"]
\* Solution { values, objective_value: Some(obj), status: state.status }
Solution(values, obj, status) ==
    [kind |-> "ok", error |-> "", values |-> values,
     objective_value |-> <<obj>>, status |-> status]

NoState ==
    [iteration |-> 0, basis |-> <<>>, non_basis |-> <<>>, x_b |-> <<>>,
     a |-> MatNew(0, 0), b |-> <<>>, c |-> <<>>, objective |-> Zero,
     status |-> "NotSolved", minimise |-> FALSE]

(***************************************************************************)
(* The control flow of SimplexSolver::solve and SimplexState::solve_lp on  *)
(* a configuration k: the SimplexState, the locals of solve_lp (bmat,      *)
(* orig_n, orig_a, orig_c), the loop variable of run_simplex and its       *)
(* caller, the program position and the value solve returns.               *)
(***************************************************************************)
InitCfg ==
    [built |-> FALSE, state |-> NoState, bmat |-> MatNew(0, 0), orig_n |-> 0,
     orig_a |-> MatNew(0, 0), orig_c |-> <<>>, phase |-> "", iter |-> 0,
     pivots |-> 0, pc |-> "check_lp", result |-> NoResult]

Finish(k, r) == [k EXCEPT !.pc = "done", !.result = r]

\* solve: crate::validate::check_lp(model)?
StepCheckLp(k, m) ==
    IF check_lp(m) = "NoObjective" THEN Finish(k, Err("NoObjective"))
    ELSE [k EXCEPT !.pc = "new"]

\* solve: SimplexState::new(model)
StepNew(k, m) ==
    IF NewPanics(m) THEN Finish(k, Panic)
    ELSE [k EXCEPT !.built = TRUE, !.state = New(m), !.pc = "init_basis"]

\* solve_lp: self.init_basis(); let orig_n = self.a.cols();
StepInitBasis(k) ==
    [k EXCEPT !.state = init_basis(k.state), !.orig_n = k.state.a.cols,
              !.pc = "try_phase2"]

\* Entry of run_simplex with a counter of its own: current_iter = 0.
EnterLoopFromZero(k, caller) ==
    [k EXCEPT !.pc = "run_simplex", !.phase = caller, !.iter = 0]

\* Entry of run_simplex from `caller`: current_iter = self.iteration.
EnterLoop(k, caller) ==
    [k EXCEPT !.pc = "run_simplex", !.phase = caller, !.iter = k.state.iteration]

\* try_phase2 with `?` on the initial solve: a failed solve is returned as
\* an error.
StepTryPhase2Strict(k) ==
    IF BuildBmatPanics(k.state) THEN Finish(k, Panic)
    ELSE LET bm == build_bmat(k.state)
             xb == compute_basic_solution(k.state, bm)
         IN  IF ~xb.ok THEN Finish(k, Err("Other: initial solve failed"))
             ELSE IF \A i \in 1..Len(xb.rhs) : GeNegEps(xb.rhs[i], TolExp)
             THEN LET st1 == [k.state EXCEPT !.x_b = xb.rhs]
                      rm == remove_artificial_from_basis(st1, bm, st1.a.cols)
                  IN  IF rm.ok
                      THEN EnterLoop([k EXCEPT !.state = rm.state, !.bmat = rm.bmat],
                                     "try_phase2")
                      ELSE Finish(k, Err("InvalidModel"))
             ELSE [k EXCEPT !.pc = "phase1"]

\* try_phase2 up to its call of run_simplex.
StepTryPhase2(k) ==
    IF BuildBmatPanics(k.state) THEN Finish(k, Panic)
    ELSE LET bm == build_bmat(k.state)
             xb == compute_basic_solution(k.state, bm)
         IN  IF xb.ok /\ \A i \in 1..Len(xb.rhs) : GeNegEps(xb.rhs[i], TolExp)
             THEN LET st1 == [k.state EXCEPT !.x_b = xb.rhs]
                      rm == remove_artificial_from_basis(st1, bm, st1.a.cols)
                  IN  IF rm.ok
                      THEN EnterLoop([k EXCEPT !.state = rm.state, !.bmat = rm.bmat],
                                     "try_phase2")
                      ELSE Finish(k, Err("InvalidModel"))
             ELSE [k EXCEPT !.pc = "phase1"]

\* phase1 up to its call of run_simplex: setup_phase1.
StepSetupPhase1(k) ==
    LET s == setup_phase1(k.state, k.orig_n)
    IN  IF s.panics THEN Finish(k, Panic)
        ELSE EnterLoop([k EXCEPT !.state = s.state, !.bmat = s.bmat,
                                 !.orig_a = s.orig_a, !.orig_c = s.orig_c], "phase1")

\* Where run_simplex returns to with Ok(()).
ReturnPc(caller) == IF caller = "phase1" THEN "phase1_check" ELSE "extract"

\* What the iteration of run_simplex standing at k.iter does.
IterKind(k, max_iter) ==
    IF k.iter >= max_iter THEN "max_iter"
    ELSE IF ComputeDualsPanics(k.state, k.bmat) THEN "panic"
    ELSE LET pi == compute_duals(k.state, k.bmat)
         IN  IF ~pi.ok THEN "dual_failed"
             ELSE IF ChooseEnteringPanics(k.state, pi.rhs) THEN "panic"
             ELSE LET e == choose_entering(k.state, pi.rhs)
                  IN  IF e = <<>> THEN "optimal"
                      ELSE LET d == compute_direction(k.state, k.bmat, e[1].entering)
                           IN  IF ~d.ok THEN "direction_failed"
                               ELSE IF choose_leaving(k.state, d.rhs) = <<>>
                                    THEN "unbounded"
                                    ELSE "pivot"

SetStatus(k, status) ==
    [k EXCEPT !.state.iteration = k.iter, !.state.status = status,
              !.pc = ReturnPc(k.phase)]

Pivot(k, e, d, l) ==
    LET st0 == [k.state EXCEPT !.iteration = k.iter]
        st1 == update_primal(st0, d, l.leave_row, l.theta)
        st2 == PivotState(st1, e.nb_pos, l.leave_row, e.entering)
    IN  [k EXCEPT !.state = update_objective(st2),
                  !.bmat = PivotBmat(st1, k.bmat, l.leave_row, e.entering),
                  !.iter = k.iter + 1,
                  !.pivots = k.pivots + 1]

\* The body of the loop of run_simplex for the iteration k.iter.
LoopBody(k) ==
    IF ComputeDualsPanics(k.state, k.bmat) THEN Finish(k, Panic)
    ELSE LET pi == compute_duals(k.state, k.bmat)
         IN  IF ~pi.ok THEN Finish(k, Err("Other: dual solve failed"))
             ELSE IF ChooseEnteringPanics(k.state, pi.rhs) THEN Finish(k, Panic)
             ELSE LET e == choose_entering(k.state, pi.rhs)
                  IN  IF e = <<>> THEN SetStatus(k, "Optimal")
                      ELSE LET d == compute_direction(k.state, k.bmat, e[1].entering)
                           IN  IF ~d.ok
                               THEN Finish(k, Err("Other: direction solve failed"))
                               ELSE LET l == choose_leaving(k.state, d.rhs)
                                    IN  IF l = <<>> THEN SetStatus(k, "Unbounded")
                                        ELSE Pivot(k, e[1], d.rhs, l[1])

\* The loop as `loop { .. }`, without the range current_iter..max_iter.
StepIterNoLimit(k, max_iter) == LoopBody(k)

\* One iteration of `for iter in current_iter..max_iter`, or the exit of the
\* exhausted range.
StepIter(k, max_iter) ==
    IF k.iter >= max_iter THEN Finish(k, Err("Other: max iterations reached"))
    ELSE LoopBody(k)

SumArtPanics(st) == \E i \in 1..Len(st.basis) : st.basis[i] >= Len(st.c) \/ i > Len(st.x_b)

\* sum_art = -(sum of c[basis[i]] * x_b[i])
SumArt(st) ==
    RNeg(SumSeq([i \in 1..Len(st.basis) |-> RMul(st.c[st.basis[i] + 1], st.x_b[i])]))

\* What phase1 does with an infeasible verdict: set the status, return Ok(()).
InfeasibleReturn(k) == [k EXCEPT !.state.status = "Infeasible", !.pc = "phase2"]

\* phase1 with the result of remove_artificial_from_basis dropped.
StepPhase1CheckUnchecked(k) ==
    IF SumArtPanics(k.state) THEN Finish(k, Panic)
    ELSE IF GtEps(SumArt(k.state), TolExp) THEN InfeasibleReturn(k)
    ELSE LET rm == remove_artificial_from_basis(k.state, k.bmat, k.orig_n)
         IN  [k EXCEPT !.state = [rm.state EXCEPT !.a = k.orig_a, !.c = k.orig_c],
                       !.bmat = rm.bmat, !.pc = "phase2"]

\* phase1 after run_simplex returned Ok(()).
StepPhase1Check(k) ==
    IF SumArtPanics(k.state) THEN Finish(k, Panic)
    ELSE IF GtEps(SumArt(k.state), TolExp) THEN InfeasibleReturn(k)
    ELSE LET rm == remove_artificial_from_basis(k.state, k.bmat, k.orig_n)
         IN  IF rm.ok
             THEN [k EXCEPT !.state = [rm.state EXCEPT !.a = k.orig_a, !.c = k.orig_c],
                            !.bmat = rm.bmat, !.pc = "phase2"]
             ELSE Finish(k, Err("InvalidModel"))

\* phase2 up to its call of run_simplex: build_bmat.
StepPhase2(k) ==
    IF BuildBmatPanics(k.state) THEN Finish(k, Panic)
    ELSE EnterLoop([k EXCEPT !.bmat = build_bmat(k.state)], "phase2")

\* solve_lp: Ok(self.extract_solution(orig_n)); solve: Ok(Solution { .. }).
StepExtract(k) ==
    IF ExtractPanics(k.state) THEN Finish(k, Panic)
    ELSE LET x == extract_solution(k.state, k.orig_n)
         IN  Finish(k, Solution(x.sol, x.obj, k.state.status))

Step(k, m, max_iter) ==
    CASE k.pc = "check_lp" -> StepCheckLp(k, m)
      [] k.pc = "new" -> StepNew(k, m)
      [] k.pc = "init_basis" -> StepInitBasis(k)
      [] k.pc = "try_phase2" -> StepTryPhase2(k)
      [] k.pc = "phase1" -> StepSetupPhase1(k)
      [] k.pc = "run_simplex" -> StepIter(k, max_iter)
      [] k.pc = "phase1_check" -> StepPhase1Check(k)
      [] k.pc = "phase2" -> StepPhase2(k)
      [] k.pc = "extract" -> StepExtract(k)

\* The value solve(model) returns with the solver's max_iterations = max_iter.
RECURSIVE RunFrom(_, _, _)
RunFrom(k, m, max_iter) ==
    IF k.pc = "done" THEN k.result ELSE RunFrom(Step(k, m, max_iter), m, max_iter)

solve(m, max_iter) == RunFrom(InitCfg, m, max_iter)


(***************************************************************************)
(* The explored inputs: models built through the public API.               *)
(***************************************************************************)
Coefs == {1, 2}
Relations == {<<"Eq", 1>>, <<"Eq", 2>>, <<"Leq", 2>>, <<"Geq", 1>>}
Senses == {"Maximize", "Minimize"}

\* The expressions of the constraints: k * x (VarId * f64) and x0 + y
\* (VarId + VarId, y being x0 again or another variable).
TermSeqs(n) ==
    {<<LinTerm(v, R(c))>> : v \in 0..(n - 1), c \in Coefs}
        \cup {<<LinTerm(0, One), LinTerm(w, One)>> : w \in 0..(n - 1)}

Constraints(n) ==
    {[expr |-> LinExpr(ts, Zero), rhs |-> R(rel[2]), cmp |-> rel[1]] :
        ts \in TermSeqs(n), rel \in Relations}

\* The expressions of the objective: the constant 0 when the model has no
\* variable, else x0 or x0 + y.
ObjTermSeqs(n) ==
    IF n = 0 THEN {<<>>}
    ELSE {<<LinTerm(0, One)>>} \cup {<<LinTerm(0, One), LinTerm(w, One)>> : w \in 0..(n - 1)}

Objectives(n) ==
    {<<>>} \cup {<<[sense |-> s, expr |-> LinExpr(ts, Zero)]>> :
                    s \in Senses, ts \in ObjTermSeqs(n)}

MkModel(n, cs, o) ==
    [vars |-> [i \in 1..n |-> NewVar(i - 1)], constraints |-> cs, objective |-> o]

MaxIterVals == {MaxIterSmall, DefaultMaxIterations}

(***************************************************************************)
(* The state machine of one call of SimplexSolver::solve(&model).          *)
(***************************************************************************)
VARIABLES model, max_iter, built, state, bmat, orig_n, orig_a, orig_c,
          phase, iter, pivots, pc, result

\* The caller building the model: the VarBuilder it holds (none or one, as
\* the builder borrows the model mutably), the call it made last, the VarId
\* finish returned last, and the panic a call raised.
VARIABLES builder, called, returned, unwinding

\* A caller doing expression arithmetic: the values it holds (LinExprs a, b
\* and c, VarIds x and y, the f64 k) and the operator it applied last, with
\* its arguments and what it returned.
VARIABLES operands, out

\* A caller of the linear solve: the matrix, its rhs buffer, and what the
\* solve returned (none yet, or the Result with the buffer as it was passed).
VARIABLES matrix, rhs_buf, solve_result

buildVars == <<builder, called, returned, unwinding>>
exprVars == <<operands, out>>
linVars == <<matrix, rhs_buf, solve_result>>

\* No linear solve is called from outside the solver.
NoLinearSolve == matrix = MatNew(0, 0) /\ rhs_buf = <<>> /\ solve_result = <<>>

\* No expression arithmetic is going on.
NoOperands ==
    [a |-> LinExprConstant(Zero), b |-> LinExprConstant(Zero),
     c |-> LinExprConstant(Zero), x |-> 0, y |-> 0, k |-> Zero]

vars == <<model, max_iter, built, state, bmat, orig_n, orig_a, orig_c,
          phase, iter, pivots, pc, result, builder, called, returned, unwinding,
          operands, out, matrix, rhs_buf, solve_result>>

Cfg ==
    [built |-> built, state |-> state, bmat |-> bmat, orig_n |-> orig_n,
     orig_a |-> orig_a, orig_c |-> orig_c, phase |-> phase, iter |-> iter,
     pivots |-> pivots, pc |-> pc, result |-> result]

Becomes(k) ==
    /\ built' = k.built /\ state' = k.state /\ bmat' = k.bmat
    /\ orig_n' = k.orig_n /\ orig_a' = k.orig_a /\ orig_c' = k.orig_c
    /\ phase' = k.phase /\ iter' = k.iter /\ pivots' = k.pivots
    /\ pc' = k.pc /\ result' = k.result
    /\ UNCHANGED <<model, max_iter, buildVars, exprVars, linVars>>

Init ==
    /\ \E n \in 0..MaxVars : \E len \in 0..MaxCons :
          \E cs \in [1..len -> Constraints(n)] : \E o \in Objectives(n) :
              model = MkModel(n, cs, o)
    /\ max_iter \in MaxIterVals
    /\ built = InitCfg.built /\ state = InitCfg.state /\ bmat = InitCfg.bmat
    /\ orig_n = InitCfg.orig_n /\ orig_a = InitCfg.orig_a /\ orig_c = InitCfg.orig_c
    /\ phase = InitCfg.phase /\ iter = InitCfg.iter /\ pivots = InitCfg.pivots
    /\ pc = InitCfg.pc /\ result = InitCfg.result
    /\ builder = <<>> /\ called = "" /\ returned = <<>> /\ unwinding = ""
    /\ operands = NoOperands /\ out = <<>>
    /\ NoLinearSolve

CheckLp == pc = "check_lp" /\ \E k \in {StepCheckLp(Cfg, model)} : Becomes(k)
NewState == pc = "new" /\ \E k \in {StepNew(Cfg, model)} : Becomes(k)
InitBasis == pc = "init_basis" /\ \E k \in {StepInitBasis(Cfg)} : Becomes(k)
TryPhase2 == pc = "try_phase2" /\ \E k \in {StepTryPhase2(Cfg)} : Becomes(k)
SetupPhase1 == pc = "phase1" /\ \E k \in {StepSetupPhase1(Cfg)} : Becomes(k)
Iterate == pc = "run_simplex" /\ \E k \in {StepIter(Cfg, max_iter)} : Becomes(k)
Phase1Check == pc = "phase1_check" /\ \E k \in {StepPhase1Check(Cfg)} : Becomes(k)
Phase2 == pc = "phase2" /\ \E k \in {StepPhase2(Cfg)} : Becomes(k)
Extract == pc = "extract" /\ \E k \in {StepExtract(Cfg)} : Becomes(k)

Next ==
    \/ CheckLp
    \/ NewState
    \/ InitBasis
    \/ TryPhase2
    \/ SetupPhase1
    \/ Iterate
    \/ Phase1Check
    \/ Phase2
    \/ Extract

Spec == Init /\ [][Next]_vars

(***************************************************************************)
(* The same state machine on models whose coefficients differ in scale: a  *)
(* coefficient may be 1e-8, the solver's tolerance, a right-hand side may  *)
(* be 0 or negative, and the objective expression may have a constant.     *)
(***************************************************************************)
\* A coefficient equal to the tolerance, 1e-8.
Tiny == <<1, 10^TolExp>>
ScaledRelations == {<<"Leq", 2>>, <<"Leq", 0>>, <<"Leq", -1>>, <<"Geq", 1>>, <<"Eq", 1>>}
\* q*v <= 0 with q = 1e-8, and v `cmp` rhs for the relations above.
ScaledConstraints(n) ==
    {[expr |-> LinExpr(<<LinTerm(v, Tiny)>>, Zero), rhs |-> Zero, cmp |-> "Leq"] :
        v \in 0..(n - 1)}
      \cup {[expr |-> LinExpr(<<LinTerm(v, One)>>, Zero), rhs |-> R(rel[2]), cmp |-> rel[1]] :
                v \in 0..(n - 1), rel \in ScaledRelations}

\* The objectives of the family: no variable twice, constant 0 or 1.
ScaledObjectives(n) ==
    {<<>>} \cup {<<[sense |-> s, expr |-> LinExpr(ts, k)]>> :
                    s \in Senses, k \in {Zero, One},
                    ts \in {SubSeq(<<LinTerm(0, One), LinTerm(1, One)>>, 1, len) :
                               len \in (IF n = 0 THEN 0 ELSE 1)..n}}

\* The constraint lists of the family: the 1e-8 coefficient occurs only
\* next to <= constraints, which keeps every intermediate value within the
\* range of the arithmetic.
ScaledConstraintSeqs(n, len) ==
    {cs \in [1..len -> ScaledConstraints(n)] :
        (\E i \in 1..len : cs[i].expr.terms[1].coeff = Tiny)
            => \A i \in 1..len : cs[i].cmp = "Leq"}

InitScaled ==
    /\ \E n \in 0..MaxVars : \E len \in 0..MaxCons :
          \E cs \in ScaledConstraintSeqs(n, len) : \E o \in ScaledObjectives(n) :
              model = MkModel(n, cs, o)
    /\ max_iter = DefaultMaxIterations
    /\ built = InitCfg.built /\ state = InitCfg.state /\ bmat = InitCfg.bmat
    /\ orig_n = InitCfg.orig_n /\ orig_a = InitCfg.orig_a /\ orig_c = InitCfg.orig_c
    /\ phase = InitCfg.phase /\ iter = InitCfg.iter /\ pivots = InitCfg.pivots
    /\ pc = InitCfg.pc /\ result = InitCfg.result
    /\ builder = <<>> /\ called = "" /\ returned = <<>> /\ unwinding = ""
    /\ operands = NoOperands /\ out = <<>>
    /\ NoLinearSolve

SpecScaled == InitScaled /\ [][Next]_vars

(***************************************************************************)
(* The same state machine on models with a row that no variable enters:    *)
(* 0*v = q with q = 1e-8 or q = 0, next to rows v `cmp` rhs. Phase 1 ends  *)
(* with the artificial column of such a row in the basis, at the value q,  *)
(* which the test sum_art > tol lets pass.                                 *)
(***************************************************************************)
ResidualConstraints(n) ==
    {[expr |-> LinExpr(<<LinTerm(v, Zero)>>, Zero), rhs |-> q, cmp |-> "Eq"] :
        v \in 0..(n - 1), q \in {Tiny, Zero}}
      \cup {[expr |-> LinExpr(<<LinTerm(v, One)>>, Zero), rhs |-> R(rel[2]), cmp |-> rel[1]] :
                v \in 0..(n - 1), rel \in Relations}

\* The constraint lists of the family: at most one right-hand side of 1e-8,
\* which keeps every intermediate value within the range of the arithmetic.
ResidualConstraintSeqs(n, len) ==
    {cs \in [1..len -> ResidualConstraints(n)] :
        \A i, j \in 1..len : (cs[i].rhs = Tiny /\ cs[j].rhs = Tiny) => i = j}

InitResidual ==
    /\ \E n \in 0..MaxVars : \E len \in 0..MaxCons :
          \E cs \in ResidualConstraintSeqs(n, len) : \E o \in Objectives(n) :
              model = MkModel(n, cs, o)
    /\ max_iter \in MaxIterVals
    /\ built = InitCfg.built /\ state = InitCfg.state /\ bmat = InitCfg.bmat
    /\ orig_n = InitCfg.orig_n /\ orig_a = InitCfg.orig_a /\ orig_c = InitCfg.orig_c
    /\ phase = InitCfg.phase /\ iter = InitCfg.iter /\ pivots = InitCfg.pivots
    /\ pc = InitCfg.pc /\ result = InitCfg.result
    /\ builder = <<>> /\ called = "" /\ returned = <<>> /\ unwinding = ""
    /\ operands = NoOperands /\ out = <<>>
    /\ NoLinearSolve

SpecResidual == InitResidual /\ [][Next]_vars

(***************************************************************************)
(* The same state machine with an iteration limit of a few pivots, which   *)
(* phase 1 and phase 2 together can use up.                                *)
(***************************************************************************)
MaxIterCarry == 3

InitCarry ==
    /\ \E n \in 0..MaxVars : \E len \in 0..MaxCons :
          \E cs \in [1..len -> Constraints(n)] : \E o \in Objectives(n) :
              model = MkModel(n, cs, o)
    /\ max_iter \in 2..MaxIterCarry
    /\ built = InitCfg.built /\ state = InitCfg.state /\ bmat = InitCfg.bmat
    /\ orig_n = InitCfg.orig_n /\ orig_a = InitCfg.orig_a /\ orig_c = InitCfg.orig_c
    /\ phase = InitCfg.phase /\ iter = InitCfg.iter /\ pivots = InitCfg.pivots
    /\ pc = InitCfg.pc /\ result = InitCfg.result
    /\ builder = <<>> /\ called = "" /\ returned = <<>> /\ unwinding = ""
    /\ operands = NoOperands /\ out = <<>>
    /\ NoLinearSolve

SpecCarry == InitCarry /\ [][Next]_vars

(***************************************************************************)
(* The state machine of a caller building a model through the public API   *)
(* of cnvx-core; solve is not called.                                      *)
(***************************************************************************)
BoundVals == {R(-1), Zero, One}
BuildCmps == {"Leq", "Geq", "Eq"}

solverVars == <<max_iter, built, state, bmat, orig_n, orig_a, orig_c,
                phase, iter, pivots, pc, result>>

BuildInit ==
    /\ model = EmptyModel
    /\ max_iter = DefaultMaxIterations
    /\ built = InitCfg.built /\ state = InitCfg.state /\ bmat = InitCfg.bmat
    /\ orig_n = InitCfg.orig_n /\ orig_a = InitCfg.orig_a /\ orig_c = InitCfg.orig_c
    /\ phase = InitCfg.phase /\ iter = InitCfg.iter /\ pivots = InitCfg.pivots
    /\ pc = InitCfg.pc /\ result = InitCfg.result
    /\ builder = <<>> /\ called = "" /\ returned = <<>> /\ unwinding = ""
    /\ operands = NoOperands /\ out = <<>>
    /\ NoLinearSolve

\* The caller's state after the call `name` that left r.
AfterCall(name, r) ==
    /\ model' = r.model /\ builder' = r.builder /\ unwinding' = r.panic
    /\ called' = name
    /\ UNCHANGED <<returned, solverVars, exprVars, linVars>>

AddVar ==
    /\ unwinding = "" /\ builder = <<>> /\ Len(model.vars) < MaxVars
    /\ AfterCall("add_var", add_var(model))

LowerBound ==
    /\ unwinding = "" /\ builder # <<>>
    /\ \E lb \in BoundVals : AfterCall("lower_bound", lower_bound(model, builder[1], lb))

UpperBound ==
    /\ unwinding = "" /\ builder # <<>>
    /\ \E ub \in BoundVals : AfterCall("upper_bound", upper_bound(model, builder[1], ub))

Integer ==
    /\ unwinding = "" /\ builder # <<>>
    /\ AfterCall("integer", integer(model, builder[1]))

Binary ==
    /\ unwinding = "" /\ builder # <<>>
    /\ AfterCall("binary", binary(model, builder[1]))

FinishVar ==
    /\ unwinding = "" /\ builder # <<>>
    /\ returned' = <<finish(builder[1])>>
    /\ builder' = <<>> /\ called' = "finish"
    /\ UNCHANGED <<model, unwinding, solverVars, exprVars, linVars>>

\* The VarIds a caller can hold: VarId is a public tuple struct
\* (pub struct VarId(pub usize)), so any index can be written down, and a
\* VarId returned by another model is a value of the same type.
CallerVarIds == 0..MaxVars

\* model += constraint: the constraint is pushed as given.
AddConstraint ==
    /\ unwinding = "" /\ builder = <<>> /\ Len(model.constraints) < MaxCons
    /\ \E v \in CallerVarIds : \E cmp \in BuildCmps :
          AfterCall("add_assign", Returned(add_assign(model, Con(v, 1, cmp, 1)), <<>>))

\* model.add_objective(obj): the objective is stored as given.
AddObjective ==
    /\ unwinding = "" /\ builder = <<>>
    /\ \E s \in Senses : \E v \in CallerVarIds :
          AfterCall("add_objective",
                    Returned(add_objective(model, [sense |-> s,
                                 expr |-> LinExpr(<<LinTerm(v, One)>>, Zero)]), <<>>))

BuildNext ==
    \/ AddVar
    \/ LowerBound
    \/ UpperBound
    \/ Integer
    \/ Binary
    \/ FinishVar
    \/ AddConstraint
    \/ AddObjective

SpecBuild == BuildInit /\ [][BuildNext]_vars

(***************************************************************************)
(* The state machine of a caller doing arithmetic on expressions with the  *)
(* operator overloads of cnvx-core; no model is built and solve is not     *)
(* called.                                                                 *)
(***************************************************************************)
MaxTerms == 3
MaxConstant == 1
OperandVarIds == {0, 1}
ExprVals ==
    {LinExpr(ts, k) :
        ts \in {<<>>} \cup {<<LinTerm(v, q)>> : v \in OperandVarIds, q \in {R(1), R(-2)}}
                     \cup {<<LinTerm(0, One), LinTerm(0, R(-2))>>},
        k \in {Zero, <<1, 2>>}}

ExprInit ==
    /\ operands \in [a : ExprVals,
                      b : {LinExprConstant(<<1, 2>>), LinExpr(<<LinTerm(1, R(-2))>>, Zero),
                           LinExpr(<<LinTerm(0, One)>>, <<1, 2>>)},
                      c : {LinExpr(<<LinTerm(1, One)>>, One), LinExprConstant(R(2))},
                      x : OperandVarIds, y : OperandVarIds, k : {<<1, 2>>, R(-3)}]
    /\ out = <<>>
    /\ model = EmptyModel
    /\ max_iter = DefaultMaxIterations
    /\ built = InitCfg.built /\ state = InitCfg.state /\ bmat = InitCfg.bmat
    /\ orig_n = InitCfg.orig_n /\ orig_a = InitCfg.orig_a /\ orig_c = InitCfg.orig_c
    /\ phase = InitCfg.phase /\ iter = InitCfg.iter /\ pivots = InitCfg.pivots
    /\ pc = InitCfg.pc /\ result = InitCfg.result
    /\ builder = <<>> /\ called = "" /\ returned = <<>> /\ unwinding = ""
    /\ NoLinearSolve

\* The operator `op` was applied to the operands held and returned `value`;
\* the operands are kept.
Applied(op, value) ==
    /\ out' = <<[op |-> op, args |-> operands, value |-> value]>>
    /\ UNCHANGED <<operands, model, solverVars, buildVars, linVars>>

\* The compound assignment `op` was applied to a, which now holds `value`.
Assigned(op, value) ==
    /\ Len(value.terms) <= MaxTerms
    /\ ~RGt(RAbs(value.constant), R(MaxConstant))
    /\ out' = <<[op |-> op, args |-> operands, value |-> value]>>
    /\ operands' = [operands EXCEPT !.a = value]
    /\ UNCHANGED <<model, solverVars, buildVars, linVars>>

ExprPlusExpr == Applied("LinExpr + LinExpr", AddLinExprLinExpr(operands.a, operands.b))
ExprPlusVar == Applied("LinExpr + VarId", AddLinExprVarId(operands.a, operands.x))
VarPlusExpr == Applied("VarId + LinExpr", AddVarIdLinExpr(operands.x, operands.a))
VarPlusVar == Applied("VarId + VarId", AddVarIdVarId(operands.x, operands.y))
ExprPlusAssignExpr == Assigned("LinExpr += LinExpr", AddAssignLinExpr(operands.a, operands.b))
ExprPlusAssignVar == Assigned("LinExpr += VarId", AddAssignVarId(operands.a, operands.x))
F64PlusExpr == Applied("f64 + LinExpr", AddF64LinExpr(operands.k, operands.a))
ExprPlusF64 == Applied("LinExpr + f64", AddLinExprF64(operands.a, operands.k))
VarTimesF64 == Applied("VarId * f64", MulVarIdF64(operands.x, operands.k))
F64TimesVar == Applied("f64 * VarId", MulF64VarId(operands.k, operands.x))

ExprNext ==
    \/ ExprPlusExpr
    \/ ExprPlusVar
    \/ VarPlusExpr
    \/ VarPlusVar
    \/ ExprPlusAssignExpr
    \/ ExprPlusAssignVar
    \/ F64PlusExpr
    \/ ExprPlusF64
    \/ VarTimesF64
    \/ F64TimesVar

SpecExpr == ExprInit /\ [][ExprNext]_vars

(***************************************************************************)
(* The state machine of a caller of the linear solve of cnvx-math on a     *)
(* square DenseMatrix.                                                     *)
(***************************************************************************)
MaxDim == 3
MaxRhsLen == 3
MatEntries == {Zero, One, R(2), R(-1), <<1, 3>>}
RhsEntries == {One, R(-2)}

\* The square matrices of dimension n: every entry drawn from MatEntries up
\* to dimension 2, 0 or 1 above.
SquareMatrices(n) ==
    {[rows |-> n, cols |-> n, data |-> Vec(d)] :
        d \in [1..(n * n) -> IF n <= 2 THEN MatEntries ELSE {Zero, One}]}

LinInit ==
    /\ \E n \in 0..MaxDim : matrix \in SquareMatrices(n)
    /\ \E len \in 0..MaxRhsLen : \E r \in [1..len -> RhsEntries] : rhs_buf = Vec(r)
    /\ solve_result = <<>>
    /\ operands = NoOperands /\ out = <<>>
    /\ model = EmptyModel
    /\ max_iter = DefaultMaxIterations
    /\ built = InitCfg.built /\ state = InitCfg.state /\ bmat = InitCfg.bmat
    /\ orig_n = InitCfg.orig_n /\ orig_a = InitCfg.orig_a /\ orig_c = InitCfg.orig_c
    /\ phase = InitCfg.phase /\ iter = InitCfg.iter /\ pivots = InitCfg.pivots
    /\ pc = InitCfg.pc /\ result = InitCfg.result
    /\ builder = <<>> /\ called = "" /\ returned = <<>> /\ unwinding = ""

\* The call `via` returned r: the buffer holds r.rhs.
Solved(via, r) ==
    /\ solve_result' = <<[via |-> via, ok |-> r.ok, err |-> r.err, passed |-> rhs_buf]>>
    /\ rhs_buf' = r.rhs
    /\ UNCHANGED <<matrix, model, solverVars, buildVars, exprVars>>

\* matrix.gaussian_elimination(&mut rhs)
GaussianElimination ==
    /\ solve_result = <<>>
    /\ Solved("DenseMatrix::gaussian_elimination", gaussian_elimination(matrix, rhs_buf))

\* DenseGaussElim::new(&matrix).solve(&mut rhs)
GaussElimSolve ==
    /\ solve_result = <<>>
    /\ Solved("DenseGaussElim::solve", DenseGaussElim_solve(matrix, rhs_buf))

LinNext ==
    \/ GaussianElimination
    \/ GaussElimSolve

SpecLin == LinInit /\ [][LinNext]_vars

(***************************************************************************)
(* What solve returned.                                                    *)
(***************************************************************************)
Done == pc = "done"
ReturnedSolution == Done /\ result.kind = "ok"
ReturnedStatus(s) == ReturnedSolution /\ result.status = s
Panicked == Done /\ result.kind = "panic"

(***************************************************************************)
(* C1.  Once phase 1 has found sum_art > tol and set the status            *)
(* Infeasible, the solve stops: the status is never overwritten, phase 2   *)
(* is not run, and the Solution solve returns has status Infeasible.       *)
(* Stated of every step taken from a state whose status is Infeasible.     *)
(***************************************************************************)
C1_InfeasibleIsTerminal ==
    [][(built /\ state.status = "Infeasible") =>
          /\ state'.status = "Infeasible"
          /\ phase' # "phase2"
          /\ (pc' = "done" => result'.kind = "ok" /\ result'.status = "Infeasible")]_vars

(***************************************************************************)
(* C2.  When solve returns status Optimal, values has one entry per model  *)
(* variable: values[j] is x_b[i] when basis[i] = j and 0 otherwise, and no *)
(* slack, surplus or artificial column appears in it.                      *)
(***************************************************************************)
C2_ValuesPerVariable ==
    ReturnedStatus("Optimal") =>
        /\ Len(result.values) = Len(model.vars)
        /\ \A j \in 1..Len(result.values) :
              result.values[j] = SolEntry(state, j - 1)

(***************************************************************************)
(* C3.  One variable x with x = 1 and x = 2 and an objective over x solves *)
(* to a Solution with status Infeasible; and a model with more constraints *)
(* than tableau columns is solved without an out-of-range column access.   *)
(***************************************************************************)
ConflictingEqualities ==
    /\ Len(model.vars) = 1
    /\ model.constraints = <<Con(0, 1, "Eq", 1), Con(0, 1, "Eq", 2)>>
    /\ model.objective # <<>>
    /\ max_iter = DefaultMaxIterations

C3_ConflictInfeasible ==
    Done =>
        /\ ConflictingEqualities => ReturnedStatus("Infeasible")
        /\ (built /\ state.a.rows > orig_n) => ~Panicked

(***************************************************************************)
(* C4.  On a model without objective, solve returns the error NoObjective  *)
(* and no tableau state has been constructed, whatever the variables and   *)
(* constraints of the model.                                               *)
(***************************************************************************)
C4_NoObjectiveFirst ==
    (model.objective = <<>> /\ pc # "check_lp") =>
        /\ Done /\ result = Err("NoObjective")
        /\ ~built /\ state = NoState /\ bmat = MatNew(0, 0)

C4_Witness ==
    /\ Done /\ model.objective = <<>> /\ result = Err("NoObjective")
    /\ Len(model.vars) = MaxVars /\ Len(model.constraints) = MaxCons


C5_UnboundedAbove ==
    /\ model.objective # <<>>
    /\ model.objective[1].sense = "Maximize"
    /\ \E t \in 1..Len(model.objective[1].expr.terms) :
          RGt(model.objective[1].expr.terms[t].coeff, Zero)
    /\ \A t \in 1..Len(model.objective[1].expr.terms) :
          ~RLt(model.objective[1].expr.terms[t].coeff, Zero)
    /\ \A i \in 1..Len(model.constraints) :
          /\ model.constraints[i].cmp = "Geq"
          /\ \A t \in 1..Len(model.constraints[i].expr.terms) :
                RGt(model.constraints[i].expr.terms[t].coeff, Zero)
    /\ max_iter = DefaultMaxIterations

(***************************************************************************)
(* C5.  When an iteration has chosen an entering column and the ratio test *)
(* finds no row with d[i] > tol, the loop ends with status Unbounded and   *)
(* solve returns Ok(Solution) with status Unbounded; in particular the     *)
(* maximisation of a variable with a positive objective coefficient that   *)
(* no constraint bounds from above (here: every constraint is >= with      *)
(* positive coefficients) returns status Unbounded.                        *)
(***************************************************************************)
C5_UnboundedReturned ==
    [][/\ (pc = "run_simplex" /\ IterKind(Cfg, max_iter) = "unbounded") =>
            (state'.status = "Unbounded" /\ pc' # "run_simplex")
       /\ (pc' = "done" /\ state'.status = "Unbounded") =>
            (result'.kind = "ok" /\ result'.status = "Unbounded")
       /\ (pc' = "done" /\ C5_UnboundedAbove) =>
            (result'.kind = "ok" /\ result'.status = "Unbounded")]_vars

\* The positions at which an action of Next is taken.
Positions ==
    {"check_lp", "new", "init_basis", "try_phase2", "phase1", "run_simplex",
     "phase1_check", "phase2", "extract"}

\* The position of the solve in solve_lp, counted down to its return.
Stage ==
    CASE pc = "check_lp" -> 11
      [] pc = "new" -> 10
      [] pc = "init_basis" -> 9
      [] pc = "try_phase2" -> 8
      [] pc = "run_simplex" /\ phase = "try_phase2" -> 7
      [] pc = "phase1" -> 6
      [] pc = "run_simplex" /\ phase = "phase1" -> 5
      [] pc = "phase1_check" -> 4
      [] pc = "phase2" -> 3
      [] pc = "run_simplex" /\ phase = "phase2" -> 2
      [] pc = "extract" -> 1
      [] pc = "done" -> 0

\* The steps the solve can still take are bounded by Rank: the stage first,
\* then what is left of the range current_iter..max_iter.
Rank == Stage * (max_iter + 1) + (max_iter - iter)

(***************************************************************************)
(* C6.  Every solve terminates: every step decreases Rank, which is never  *)
(* negative, and leads to the return of solve or to a position from which  *)
(* the next step is taken.  The loop                                       *)
(* variable never passes max_iter, no more than max_iter pivots are made,  *)
(* and the loop that has used up its range ends the solve with            *)
(* Other("max iterations reached").                                        *)
(***************************************************************************)
C6_Terminates ==
    [][/\ Rank' < Rank /\ Rank' >= 0
       /\ pc' \in Positions \cup {"done"}
       /\ iter' <= max_iter /\ pivots' <= max_iter
       /\ (pc = "run_simplex" /\ iter >= max_iter) =>
             (pc' = "done" /\ result' = Err("Other: max iterations reached"))]_vars

C6_Witness ==
    /\ Done /\ result = Err("Other: max iterations reached")
    /\ pivots = max_iter /\ iter = max_iter

\* The sum of the coefficients of the terms of `terms` with variable v.
RECURSIVE CoeffSum(_, _)
CoeffSum(terms, v) ==
    IF terms = <<>> THEN Zero
    ELSE RAdd(IF Head(terms).var = v THEN Head(terms).coeff ELSE Zero,
              CoeffSum(Tail(terms), v))

(***************************************************************************)
(* C7.  The tableau new() builds accumulates the terms of one variable:    *)
(* A[i, var] is the sum of the coefficients of the terms of constraint i   *)
(* with that variable, and c[var] the (sense-adjusted) sum of those of the *)
(* objective.                                                              *)
(***************************************************************************)
C7_DuplicatesAccumulated ==
    pc = "init_basis" =>
        /\ \A i \in 1..Len(model.constraints) : \A v \in 0..(Len(model.vars) - 1) :
              Get(state.a, i - 1, v) = CoeffSum(model.constraints[i].expr.terms, v)
        /\ \A v \in 0..(Len(model.vars) - 1) :
              state.c[v + 1] = ObjCoeff(model.objective[1].sense,
                                        CoeffSum(model.objective[1].expr.terms, v))

\* The model that maximises the negation of the objective expression of m.
MaximizeNegated(m) ==
    LET e == m.objective[1].expr
    IN  [m EXCEPT !.objective =
            <<[sense |-> "Maximize",
               expr |-> LinExpr([t \in 1..Len(e.terms) |->
                                    LinTerm(e.terms[t].var, RNeg(e.terms[t].coeff))],
                                RNeg(e.constant))]>>]

(***************************************************************************)
(* C8.  What solve returns for a Minimize model and what it returns for    *)
(* the Maximize model of the negated objective have the same status and    *)
(* values (or are the same failure), and objective values that are         *)
(* negations of each other.                                                *)
(***************************************************************************)
C8_MinimizeIsMaximizeNegated ==
    (Done /\ model.objective # <<>> /\ model.objective[1].sense = "Minimize") =>
        LET r == solve(MaximizeNegated(model), max_iter)
        IN  /\ r.kind = result.kind /\ r.error = result.error
            /\ r.status = result.status /\ r.values = result.values
            /\ Len(r.objective_value) = Len(result.objective_value)
            /\ result.kind = "ok" =>
                  r.objective_value[1] = RNeg(result.objective_value[1])

C8_Witness ==
    /\ ReturnedStatus("Optimal")
    /\ model.objective[1].sense = "Minimize"
    /\ result.objective_value[1] # Zero

\* The models that differ from m in the is_integer, lb and ub fields of
\* their variables only: each variable continuous, integer or binary.
FlagVariants(m) ==
    {[m EXCEPT !.vars = [i \in 1..Len(m.vars) |->
                            IF f[i] = "integer" THEN VarInteger(m.vars[i])
                            ELSE IF f[i] = "binary" THEN VarBinary(m.vars[i])
                            ELSE m.vars[i]]] :
        f \in [1..Len(m.vars) -> {"continuous", "integer", "binary"}]}

(***************************************************************************)
(* C9.  solve returns the same result (status, values and objective, or    *)
(* the same error) for two models that differ in the is_integer, lb and ub *)
(* fields of their variables only.                                         *)
(***************************************************************************)
C9_FlagsIgnored ==
    Done => \A m2 \in FlagVariants(model) : solve(m2, max_iter) = result

C9_Witness ==
    /\ ReturnedStatus("Optimal") /\ Len(model.vars) = MaxVars
    /\ \E j \in 1..Len(result.values) : result.values[j] # Zero
    /\ \E m2 \in FlagVariants(model) : m2.vars[1].ub = <<One>> /\ m2.vars[2].is_integer

ExprVarIds(m) ==
    UNION {{m.constraints[i].expr.terms[t].var :
                t \in 1..Len(m.constraints[i].expr.terms)} :
           i \in 1..Len(m.constraints)}
      \cup (IF m.objective = <<>> THEN {}
            ELSE {m.objective[1].expr.terms[t].var :
                     t \in 1..Len(m.objective[1].expr.terms)})

(***************************************************************************)
(* C11.  After any sequence of add_var, model += constraint and            *)
(* add_objective, every VarId in a constraint or in the objective of the   *)
(* model is the id of a variable of the model (index < vars.len()), so     *)
(* that new() indexes no column outside the tableau.                       *)
(***************************************************************************)
C11_VarIdsInRange ==
    /\ \A v \in ExprVarIds(model) : v < Len(model.vars)
    /\ ~NewPanics(model)

\* The assignments of values to the variables of the operands.
Assignments == [OperandVarIds -> {R(-1), <<1, 3>>}]

\* The value of e under val: the sum of coeff * val[var] over all terms of e,
\* duplicates included, plus the constant.
Eval(e, val) ==
    RAdd(SumSeq(Vec([t \in 1..Len(e.terms) |->
                        RMul(e.terms[t].coeff, val[e.terms[t].var])])),
         e.constant)

\* What the operator applied last should evaluate to under val: the sum of
\* the values of its two arguments (a VarId x stands for 1*x, an f64 for the
\* constant), and the product for the two multiplications.
EvalOfArguments(o, val) ==
    LET g == o.args
    IN  CASE o.op \in {"LinExpr + LinExpr", "LinExpr += LinExpr"} ->
                 RAdd(Eval(g.a, val), Eval(g.b, val))
          [] o.op \in {"LinExpr + VarId", "VarId + LinExpr", "LinExpr += VarId"} ->
                 RAdd(Eval(g.a, val), val[g.x])
          [] o.op = "VarId + VarId" -> RAdd(val[g.x], val[g.y])
          [] o.op \in {"f64 + LinExpr", "LinExpr + f64"} -> RAdd(Eval(g.a, val), g.k)
          [] o.op \in {"VarId * f64", "f64 * VarId"} -> RMul(g.k, val[g.x])

\* k*x + e and e + k*x evaluate identically under val.
ScaledTermCommutes(g, val) ==
    Eval(AddLinExprLinExpr(MulF64VarId(g.k, g.x), g.a), val)
        = Eval(AddLinExprLinExpr(g.a, MulF64VarId(g.k, g.x)), val)

\* (p + q) + r and p + (q + r) evaluate identically under val, in the
\* operator forms that can be chained.
Associates(g, val) ==
    /\ Eval(AddLinExprLinExpr(AddLinExprLinExpr(g.a, g.b), g.c), val)
         = Eval(AddLinExprLinExpr(g.a, AddLinExprLinExpr(g.b, g.c)), val)
    /\ Eval(AddLinExprVarId(AddVarIdLinExpr(g.x, g.a), g.y), val)
         = Eval(AddVarIdLinExpr(g.x, AddLinExprVarId(g.a, g.y)), val)
    /\ Eval(AddLinExprF64(AddF64LinExpr(g.k, g.a), g.k), val)
         = Eval(AddF64LinExpr(g.k, AddLinExprF64(g.a, g.k)), val)
    /\ Eval(AddLinExprLinExpr(AddVarIdVarId(g.x, g.y), g.a), val)
         = Eval(AddVarIdLinExpr(g.x, AddVarIdLinExpr(g.y, g.a)), val)
    /\ Eval(AddAssignLinExpr(AddAssignLinExpr(g.a, g.b), g.c), val)
         = Eval(AddAssignLinExpr(g.a, AddLinExprLinExpr(g.b, g.c)), val)
    /\ Eval(AddAssignVarId(AddAssignLinExpr(g.a, g.b), g.x), val)
         = Eval(AddAssignLinExpr(g.a, AddLinExprVarId(g.b, g.x)), val)

(* C12. Addition of linear expressions is linear in the evaluated value:   *)
(* under every assignment, what any of the addition operators (VarId +     *)
(* VarId, VarId + LinExpr, LinExpr + VarId, LinExpr + LinExpr, f64 +       *)
(* LinExpr, LinExpr + f64, +=) returned evaluates to the sum of the values *)
(* of its two arguments; k*x + e and e + k*x evaluate identically, and so  *)
(* do (a+b)+c and a+(b+c).                                                 *)
C12_AddIsLinear ==
    out # <<>> =>
        \A val \in Assignments :
            /\ Eval(out[1].value, val) = EvalOfArguments(out[1], val)
            /\ ScaledTermCommutes(out[1].args, val)
            /\ Associates(out[1].args, val)

\* A sum with a nonzero constant on each side, a duplicated variable on the
\* left, evaluated to a nonzero value.
C12_Witness ==
    /\ out # <<>>
    /\ out[1].op = "VarId + LinExpr"
    /\ out[1].args.a.constant # Zero
    /\ Len(out[1].args.a.terms) = 3
    /\ out[1].value.constant = out[1].args.a.constant
    /\ \E val \in Assignments : Eval(out[1].value, val) # Zero

\* The augmented matrix [M | rhs].
Augmented(M, rhs) ==
    Vec([i \in 1..M.rows |-> Vec([j \in 1..(M.rows + 1) |->
            IF j <= M.rows THEN Get(M, i - 1, j - 1) ELSE rhs[i]])])

\* The augmented matrix when elimination column col is reached: none if an
\* earlier column had no usable pivot.
RECURSIVE AugAt(_, _, _)
AugAt(M, rhs, col) ==
    IF col = 0 THEN <<Augmented(M, rhs)>>
    ELSE LET before == AugAt(M, rhs, col - 1)
         IN  IF before = <<>> THEN <<>>
             ELSE LET aug == before[1]
                      p == PivotRow(aug, M.rows, col - 1)
                  IN  IF LtEps(RAbs(aug[p + 1][col]), ZeroExp) THEN <<>>
                      ELSE <<EliminateCol(SwapRows(aug, p, col - 1), M.rows, col - 1)>>

\* At some elimination column every candidate pivot (rows col..n-1) is below
\* 1e-12 in absolute value.
NoPivotAtSomeColumn(M, rhs) ==
    \E col \in 0..(M.rows - 1) :
        /\ AugAt(M, rhs, col) # <<>>
        /\ \A r \in col..(M.rows - 1) :
              LtEps(RAbs(AugAt(M, rhs, col)[1][r + 1][col + 1]), ZeroExp)

\* Row i (from 0) of M times x.
RowTimes(M, i, x) == SumSeq(Vec([j \in 1..M.cols |-> RMul(Get(M, i, j - 1), x[j])]))

(* C13. The linear solve on an n-row square matrix returns the             *)
(* dimension-mismatch error whenever rhs.len() # n; with the lengths equal *)
(* it returns the singular error whenever at some elimination column the   *)
(* largest absolute value among the candidate pivot rows is below 1e-12;   *)
(* otherwise it returns Ok and rhs holds x with A x = rhs as passed.       *)
C13_LinearSolveContract ==
    solve_result # <<>> =>
        LET r == solve_result[1]
            n == matrix.rows
        IN  IF Len(r.passed) # n
            THEN ~r.ok /\ r.err = "rhs length mismatch"
            ELSE IF NoPivotAtSomeColumn(matrix, r.passed)
            THEN ~r.ok /\ r.err = "singular matrix"
            ELSE /\ r.ok
                 /\ Len(rhs_buf) = n
                 /\ \A i \in 0..(n - 1) : RowTimes(matrix, i, rhs_buf) = r.passed[i + 1]

\* A 2x2 solve that had to swap rows and succeeded with a solution different
\* from the rhs passed.
C13_Witness ==
    /\ solve_result # <<>>
    /\ solve_result[1].ok
    /\ matrix.rows = 2
    /\ RLt(RAbs(Get(matrix, 0, 0)), RAbs(Get(matrix, 1, 0)))
    /\ rhs_buf # solve_result[1].passed

\* run_simplex has just returned Ok(()) to its caller.
LoopReturned == pc \in {"phase1_check", "extract"}

\* The duals of the basis of st: the solution of B^T pi = c_B with
\* B = A[., basis], as a Result.
DualsOfBasis(st) ==
    gaussian_elimination(Transpose(build_bmat(st)),
                         Vec([i \in 1..Len(st.basis) |-> st.c[st.basis[i] + 1]]))

(* C14. Whenever the main loop ends with status Optimal, every column j in *)
(* non_basis has reduced cost c[j] - sum_i pi[i]*A[i,j] <= tol, where pi   *)
(* solves B^T pi = c_B for the final basis and c is the cost vector in     *)
(* force (the phase-1 costs in phase 1, the tableau's in phase 2).         *)
C14_OptimalHasNoImprovingColumn ==
    (LoopReturned /\ state.status = "Optimal") =>
        /\ DualsOfBasis(state).ok
        /\ \A p \in 1..Len(state.non_basis) :
              ~GtEps(ReducedCost(state, DualsOfBasis(state).rhs, state.non_basis[p]),
                     TolExp)

\* The loop ended Optimal after a pivot, with a non-basic column priced
\* strictly below zero and more than one non-basic column.
C14_Witness ==
    /\ pc = "extract" /\ state.status = "Optimal" /\ pivots >= 1
    /\ Len(state.non_basis) >= 2
    /\ DualsOfBasis(state).ok
    /\ \E p \in 1..Len(state.non_basis) :
          RLt(ReducedCost(state, DualsOfBasis(state).rhs, state.non_basis[p]), Zero)

\* Row i (from 0) of A[., basis] times x_B, minus b[i].
BasisResidual(st, i) ==
    RSub(SumSeq(Vec([k \in 1..Len(st.basis) |->
                        RMul(Get(st.a, i, st.basis[k]), st.x_b[k])])),
         st.b[i + 1])

\* x_B is the basic solution of the basis of st and is >= -tol.
FeasibleBasis(st) ==
    /\ Len(st.x_b) = Len(st.basis)
    /\ \A i \in 0..(st.a.rows - 1) : BasisResidual(st, i) = Zero
    /\ \A k \in 1..Len(st.x_b) : GeNegEps(st.x_b[k], TolExp)

\* x_B is the basic solution of the basis of st within 10*tol and is >= -tol.
FeasibleBasisWithin(st) ==
    /\ Len(st.x_b) = Len(st.basis)
    /\ \A i \in 0..(st.a.rows - 1) : ~GtEps(RAbs(BasisResidual(st, i)), TolExp - 1)
    /\ \A k \in 1..Len(st.x_b) : GeNegEps(st.x_b[k], TolExp)

\* The step is a pivot of the loop of phase 2 (entered from try_phase2 or
\* from phase2).
Phase2Pivot ==
    /\ pc = "run_simplex" /\ phase \in {"try_phase2", "phase2"}
    /\ pivots' = pivots + 1

(* C15. During phase 2, if the basis is feasible before a pivot            *)
(* (A[., basis] x_B = b and x_B >= -tol), then after update_primal and     *)
(* pivot the new x_B is again the basic solution of the new basis, within  *)
(* 10*tol, and >= -tol in every component.                                 *)
C15_PivotKeepsFeasibility ==
    [][(Phase2Pivot /\ FeasibleBasis(state)) => FeasibleBasisWithin(state')]_vars

\* The returned values as an assignment: VarId(v) has the value values[v].
ValuesOf(values) == [v \in 0..(Len(values) - 1) |-> values[v + 1]]

(* C16. Whenever solve returns Optimal, objective_value equals the model's *)
(* objective expression evaluated at the returned values: the sum over all *)
(* objective terms of coeff * values[var], plus the constant.              *)
C16_ObjectiveIsExpressionValue ==
    ReturnedStatus("Optimal") =>
        result.objective_value[1]
            = Eval(model.objective[1].expr, ValuesOf(result.values))

\* The constraint (from 1) that extra column number e (from 0) belongs to:
\* the (e+1)-th Leq or Geq constraint of cs.
IneqOfExtra(cs, e) ==
    CHOOSE i \in 1..Len(cs) : IsIneq(cs[i]) /\ CountIneq(SubSeq(cs, 1, i)) = e + 1

(* C17. Tableau construction allocates exactly one extra column per Leq or *)
(* Geq constraint and none per Eq constraint: A has n_vars + #(Leq, Geq)   *)
(* columns, c has as many entries, and every extra column holds exactly    *)
(* one nonzero, +1 for Leq and -1 for Geq, in the row of its constraint.   *)
C17_OneColumnPerInequality ==
    pc = "init_basis" =>
        LET n_vars == Len(model.vars)
            cs == model.constraints
            n_ineq == CountIneq(cs)
        IN  /\ state.a.cols = n_vars + n_ineq
            /\ Len(state.c) = n_vars + n_ineq
            /\ \A e \in 0..(n_ineq - 1) : \A i \in 1..Len(cs) :
                  Get(state.a, i - 1, n_vars + e)
                      = IF i # IneqOfExtra(cs, e) THEN Zero
                        ELSE IF cs[i].cmp = "Leq" THEN One ELSE RNeg(One)

\* The set of the elements of the sequence s.
Elems(s) == {s[i] : i \in 1..Len(s)}

(* C18. After init_basis, basis has exactly n_cons entries, basis and      *)
(* non_basis are disjoint and free of duplicates, and together they are    *)
(* exactly the column indices 0..n_total-1, whether the identity-like      *)
(* columns cover every row or the fallback split is taken.                 *)
C18_BasisPartition ==
    pc = "try_phase2" =>
        /\ Len(state.basis) = Len(model.constraints)
        /\ Elems(state.basis) \cap Elems(state.non_basis) = {}
        /\ Cardinality(Elems(state.basis)) = Len(state.basis)
        /\ Cardinality(Elems(state.non_basis)) = Len(state.non_basis)
        /\ Elems(state.basis) \cup Elems(state.non_basis) = 0..(state.a.cols - 1)

\* The initial solve of B x_B = b for the basis init_basis left in st.
InitialSolve(st) == compute_basic_solution(st, build_bmat(st))

\* The initial solve of st fails or yields an entry below -tol.
NeedsPhase1(st) ==
    \/ ~InitialSolve(st).ok
    \/ \E i \in 1..Len(InitialSolve(st).rhs) : ~GeNegEps(InitialSolve(st).rhs[i], TolExp)

(* C19. Phase 1 is run if and only if the initial solve of B x_B = b fails *)
(* or some entry of x_B is below -tol.  When the solve succeeds with every *)
(* entry >= -tol the loop of phase 2 is entered directly and phase 1 is    *)
(* never entered afterwards; a failing (singular) initial solve returns no *)
(* error and leads to phase 1.                                             *)
C19_Phase1IffInitialBasisInfeasible ==
    /\ [][(pc = "try_phase2" /\ ~BuildBmatPanics(state)) =>
            IF NeedsPhase1(state)
            THEN pc' = "phase1" /\ result' = NoResult
            ELSE pc' = "run_simplex" /\ phase' = "try_phase2"]_vars
    /\ [](phase = "try_phase2" => pc \in {"run_simplex", "extract", "done"})

\* Phase 1 is about to run because the initial basis matrix is singular.
C19_Witness ==
    /\ pc = "phase1"
    /\ ~BuildBmatPanics(state)
    /\ ~InitialSolve(state).ok

(* C20. After setup_phase1, for every tableau: A has n_cons additional     *)
(* artificial columns forming an identity block, every row with b[i] < 0   *)
(* has been negated in A (the others are kept), the basis is exactly the   *)
(* artificial columns, x_B[i] = |b[i]| >= 0, the cost vector is 0 on the   *)
(* original columns and -1 on the artificial ones, and the saved copies    *)
(* are the A and c of before.  Stated of the step that runs setup_phase1.  *)
C20_Phase1Setup ==
    [][pc = "phase1" =>
        LET m == state.a.rows
            n == state.a.cols
        IN  /\ pc' = "run_simplex" /\ phase' = "phase1"
            /\ state'.a.rows = m /\ state'.a.cols = n + m
            /\ \A i \in 0..(m - 1) : \A j \in 0..(m - 1) :
                  Get(state'.a, i, n + j) = IF i = j THEN One ELSE Zero
            /\ \A i \in 0..(m - 1) : \A j \in 0..(n - 1) :
                  Get(state'.a, i, j) = IF RLt(state.b[i + 1], Zero)
                                        THEN RNeg(Get(state.a, i, j))
                                        ELSE Get(state.a, i, j)
            /\ Len(state'.basis) = m
            /\ \A i \in 1..m : state'.basis[i] = n + i - 1
            /\ Len(state'.x_b) = m
            /\ \A i \in 1..m : /\ state'.x_b[i] = RAbs(state.b[i])
                               /\ ~RLt(state'.x_b[i], Zero)
            /\ Len(state'.c) = n + m
            /\ \A j \in 1..(n + m) : state'.c[j] = IF j <= n THEN Zero ELSE RNeg(One)
            /\ orig_a' = state.a /\ orig_c' = state.c]_vars

\* setup_phase1 has just run on a tableau with a negative right-hand side
\* and a row that was kept.
C20_Witness ==
    /\ pc = "run_simplex" /\ phase = "phase1" /\ pivots = 0
    /\ \E i \in 1..Len(state.b) : RLt(state.b[i], Zero)
    /\ \E i \in 1..Len(state.b) : RGt(state.b[i], Zero)
    /\ \E j \in 0..(orig_a.cols - 1) : Get(state.a, 0, j) # Get(orig_a, 0, j)

\* The step is a pivot of the main loop, in either phase.
LoopPivot == pc = "run_simplex" /\ pivots' = pivots + 1

\* The reduced costs the iteration standing at the current state prices,
\* by position in non_basis.
PricedCosts ==
    LET pi == compute_duals(state, bmat).rhs
    IN  Vec([p \in 1..Len(state.non_basis) |-> ReducedCost(state, pi, state.non_basis[p])])

\* The position of non_basis the step changed: that of the entering column.
EnteredAt(p) == state'.non_basis[p] # state.non_basis[p]

\* The column at position p exceeds tol and no non-basic column has a larger
\* reduced cost.
LargestAboveTol(p) ==
    /\ GtEps(PricedCosts[p], TolExp)
    /\ \A q \in 1..Len(state.non_basis) : ~RGt(PricedCosts[q], PricedCosts[p])

(* C21 as stated. Pricing selects as entering column the non-basic column  *)
(* with the largest reduced cost among those exceeding tol, and of several *)
(* columns sharing that largest reduced cost the one appearing first in    *)
(* non_basis.                                                              *)
C21_EnteringFirstOfLargest ==
    [][LoopPivot =>
        \A p \in 1..Len(state.non_basis) : EnteredAt(p) =>
            /\ LargestAboveTol(p)
            /\ \A q \in 1..(p - 1) : PricedCosts[q] # PricedCosts[p]]_vars

(* C21 amended. Pricing selects as entering column the non-basic column    *)
(* with the largest reduced cost among those exceeding tol, and of several *)
(* columns sharing that largest reduced cost the one appearing last in     *)
(* non_basis; the entering column takes the place of the row that left.    *)
C21_EnteringLastOfLargest ==
    [][LoopPivot =>
        /\ \E p \in 1..Len(state.non_basis) : EnteredAt(p)
        /\ \A p \in 1..Len(state.non_basis) : EnteredAt(p) =>
            /\ LargestAboveTol(p)
            /\ \A q \in (p + 1)..Len(state.non_basis) : PricedCosts[q] # PricedCosts[p]
            /\ \E r \in 1..Len(state.basis) : state'.basis[r] = state.non_basis[p]]_vars

\* An iteration about to pivot with two non-basic columns sharing the
\* largest reduced cost.
C21_Witness ==
    /\ pc = "run_simplex"
    /\ IterKind(Cfg, max_iter) = "pivot"
    /\ \E p, q \in 1..Len(state.non_basis) :
          p < q /\ LargestAboveTol(p) /\ PricedCosts[q] = PricedCosts[p]

\* The direction d = B^-1 A[., j] of the current state for column j.
DirectionOf(j) == compute_direction(state, bmat, j).rhs

\* Row r (from 1) is eligible for direction d and attains the smallest ratio
\* x_B[i] / d[i] over the eligible rows, and no eligible row before it does.
FirstMinRatioRow(d, r) ==
    /\ GtEps(d[r], TolExp)
    /\ \A i \in 1..Len(d) : GtEps(d[i], TolExp) =>
          ~RLt(RDiv(state.x_b[i], d[i]), RDiv(state.x_b[r], d[r]))
    /\ \A i \in 1..(r - 1) : GtEps(d[i], TolExp) =>
          RDiv(state.x_b[i], d[i]) # RDiv(state.x_b[r], d[r])

(* C22. The ratio test considers only rows with d[i] > tol, selects the    *)
(* row minimising theta = x_B[i] / d[i], and of several rows attaining the *)
(* minimum the smallest row index: the row whose basis entry a pivot       *)
(* replaces is that row, and it leaves with x_B = theta.                   *)
C22_LeavingFirstOfSmallestRatio ==
    [][LoopPivot =>
        /\ \E r \in 1..Len(state.basis) : state'.basis[r] # state.basis[r]
        /\ \A r \in 1..Len(state.basis) : state'.basis[r] # state.basis[r] =>
              LET d == DirectionOf(state'.basis[r])
              IN  /\ FirstMinRatioRow(d, r)
                  /\ state'.x_b[r] = RDiv(state.x_b[r], d[r])]_vars

\* An iteration about to pivot in which two rows attain the smallest ratio.
C22_Witness ==
    /\ pc = "run_simplex"
    /\ IterKind(Cfg, max_iter) = "pivot"
    /\ LET e == choose_entering(state, compute_duals(state, bmat).rhs)[1].entering
           d == DirectionOf(e)
       IN  \E r, q \in 1..Len(d) :
              /\ r < q /\ FirstMinRatioRow(d, r)
              /\ GtEps(d[q], TolExp)
              /\ RDiv(state.x_b[q], d[q]) = RDiv(state.x_b[r], d[r])

\* The step swapped row r (from 1) of basis with position p (from 1) of
\* non_basis and rewrote column r of B from A, and nothing else of them.
SwappedOnly(r, p) ==
    /\ state'.basis = [state.basis EXCEPT ![r] = state.non_basis[p]]
    /\ state'.non_basis = [state.non_basis EXCEPT ![p] = state.basis[r]]
    /\ bmat'.rows = bmat.rows /\ bmat'.cols = bmat.cols
    /\ \A i \in 0..(bmat.rows - 1) : \A k \in 0..(bmat.cols - 1) :
          Get(bmat', i, k) = IF k = r - 1 THEN Get(state.a, i, state.non_basis[p])
                             ELSE Get(bmat, i, k)

(* C23. Each pivot changes only basis[leave_row] (set to the entering      *)
(* column), non_basis[enter_pos] (set to the leaving column) and column    *)
(* leave_row of B; every other entry of basis, non_basis and B, and all of *)
(* A, b and c, are unchanged, so basis and non_basis keep their sizes and  *)
(* the same disjoint union of column indices.                              *)
C23_PivotFrame ==
    [][LoopPivot =>
        /\ \E r \in 1..Len(state.basis) : \E p \in 1..Len(state.non_basis) :
              SwappedOnly(r, p)
        /\ state'.a = state.a /\ state'.b = state.b /\ state'.c = state.c
        /\ Len(state'.basis) = Len(state.basis)
        /\ Len(state'.non_basis) = Len(state.non_basis)
        /\ Elems(state'.basis) \cup Elems(state'.non_basis)
              = Elems(state.basis) \cup Elems(state.non_basis)
        /\ (Elems(state.basis) \cap Elems(state.non_basis) = {}
              => Elems(state'.basis) \cap Elems(state'.non_basis) = {})]_vars

\* A pivot has just replaced the second column of a basis of two rows,
\* whose first column is not the unit vector written into the second.
C23_Witness ==
    /\ pc = "run_simplex" /\ pivots >= 1
    /\ Len(state.basis) = 2 /\ Len(state.non_basis) >= 2
    /\ state.basis[2] < Len(model.vars)
    /\ Get(bmat, 0, 0) # Get(bmat, 0, 1)

\* Column k of bm is column bas[k] of a, for every row k of the basis.
BasisColumnsIn(bm, a, bas) ==
    /\ bm.rows = a.rows /\ bm.cols = a.rows /\ Len(bas) >= a.rows
    /\ \A k \in 0..(bm.cols - 1) :
          /\ bas[k + 1] < a.cols
          /\ \A i \in 0..(bm.rows - 1) : Get(bm, i, k) = Get(a, i, bas[k + 1])

\* The iteration at hand gets as far as pricing.
Prices ==
    /\ pc = "run_simplex" /\ iter < max_iter
    /\ ~ComputeDualsPanics(state, bmat)
    /\ compute_duals(state, bmat).ok

BasicReducedCostsVanish ==
    Prices =>
        LET pi == compute_duals(state, bmat).rhs
        IN  \A r \in 1..Len(state.basis) :
                ~GtEps(RAbs(ReducedCost(state, pi, state.basis[r])), TolExp)

(* C24. At every iteration of the main loop, in either phase, the reduced  *)
(* cost c[j] - pi.A[.,j] of every basic column j is zero within tol; and   *)
(* after every pivot and every artificial swap, column k of B is column    *)
(* basis[k] of the current A for every k.                                  *)
C24_BasicColumnsPriceToZero ==
    [][/\ pc = "run_simplex" => BasicReducedCostsVanish
       /\ pc' = "run_simplex" => BasisColumnsIn(bmat', state'.a, state'.basis)
       /\ (pc = "phase1_check" /\ pc' = "phase2")
             => BasisColumnsIn(bmat', state.a, state'.basis)]_vars

\* After phase 1, and two pivots in all, phase 2 prices a basis of two rows
\* with a nonzero cost on a basic column.
C24_Witness ==
    /\ phase = "phase2" /\ pivots >= 2 /\ Len(state.basis) = 2
    /\ Prices
    /\ \E r \in 1..2 : state.c[state.basis[r] + 1] # Zero

\* phase1 found the artificial sum within tol and is about to drive the
\* artificial columns out of the basis.
DrivesOut ==
    /\ pc = "phase1_check"
    /\ ~SumArtPanics(state)
    /\ ~GtEps(SumArt(state), TolExp)

\* The first row holding an artificial column for which
\* remove_artificial_from_basis finds a column to swap in: the state it
\* swaps in is the one phase 1 ended with.
FirstSwapRows ==
    LET rows == {r \in 0..(bmat.rows - 1) :
                    state.basis[r + 1] >= orig_n /\ ArtPivot(state, r, orig_n) # <<>>}
    IN  {r \in rows : \A q \in rows : r <= q}

\* Entry `row` of B^-1 A[., j]: the tableau entry of column j in that row.
TableauEntryNonzero(row, j) ==
    LET d == compute_direction(state, bmat, j)
    IN  d.ok /\ IsNonzero(d.rhs[row + 1])

(* C25. When artificials are driven out after a feasible phase 1, the      *)
(* original non-basic column swapped into an artificial basic row has a    *)
(* nonzero tableau entry in that row, so after every such swap B is still  *)
(* nonsingular and phase 2 can solve with it.                              *)
C25_SwapKeepsBasisNonsingular ==
    DrivesOut =>
        \A row \in FirstSwapRows :
            LET j == state.non_basis[ArtPivot(state, row, orig_n)[1]]
                rm == remove_artificial_from_basis(state, bmat, orig_n)
            IN  /\ TableauEntryNonzero(row, j)
                /\ rm.ok => gaussian_elimination(rm.bmat, state.b).ok

\* Driving out succeeds and leaves an artificial column in the basis: a row
\* without eligible column whose x_B is within 1e-12 of zero.
LeavesDegenerateArtificial ==
    /\ DrivesOut
    /\ LET rm == remove_artificial_from_basis(state, bmat, orig_n)
       IN  /\ rm.ok
           /\ \E row \in 1..Len(rm.state.basis) :
                 rm.state.basis[row] >= orig_n /\ ~IsNonzero(rm.state.x_b[row])

(* C26. When, after a feasible phase 1, an artificial basic row has no     *)
(* eligible original non-basic column and |x_B[row]| <= 1e-12, the         *)
(* artificial is left in the basis with value zero and the solve goes on   *)
(* through phase 2 to a final status without failing (short of running out *)
(* of iterations); the values returned are those of the original columns.  *)
C26_DegenerateArtificialIsHarmless ==
    LeavesDegenerateArtificial =>
        LET r == RunFrom(Cfg, model, max_iter)
        IN  \/ r.kind = "err" /\ r.error = "Other: max iterations reached"
            \/ /\ r.kind = "ok"
               /\ r.status \in {"Optimal", "Unbounded"}
               /\ Len(r.values) = orig_n

\* Row `row` (from 1) holds an artificial column at a value beyond 1e-12 and
\* no original non-basic column has a nonzero entry in it.
StuckArtificial(row) ==
    /\ state.basis[row] >= orig_n
    /\ IsNonzero(state.x_b[row])
    /\ \A p \in 1..Len(state.non_basis) :
          state.non_basis[p] < orig_n
              => ~IsNonzero(Get(state.a, row - 1, state.non_basis[p]))

(* C27. When an artificial basic row has no original non-basic column with *)
(* a nonzero entry in that row and |x_B[row]| > 1e-12, driving artificials *)
(* out fails with a structural error, which solve returns as               *)
(* SolveError::InvalidModel; phase 2 is then not run.                      *)
C27_StuckArtificialIsInvalidModel ==
    [][(DrivesOut /\ \E row \in 1..Len(state.basis) : StuckArtificial(row)) =>
          /\ pc' = "done"
          /\ result'.kind = "err" /\ result'.error = "InvalidModel"
          /\ phase' = "phase1"]_vars

\* solve has returned InvalidModel from phase 1, with an artificial column
\* in the basis at a nonzero value.
C27_Witness ==
    /\ Done /\ result.kind = "err" /\ result.error = "InvalidModel"
    /\ phase = "phase1"
    /\ \E row \in 1..Len(state.basis) : StuckArtificial(row)

(* C28. After phase 1 ends feasibly and the original A and c are restored, *)
(* every index in basis and non_basis that phase 2 reads is a valid column *)
(* index of the restored A and c (< n_total); no artificial column index   *)
(* left over from the phase-1 pivots is used to index A or c in phase 2.   *)
C28_Phase2IndicesInRange ==
    [][(DrivesOut /\ pc' = "phase2") =>
          /\ state'.a = orig_a /\ state'.c = orig_c
          /\ \A r \in 1..Len(state'.basis) : state'.basis[r] < state'.a.cols
          /\ \A p \in 1..Len(state'.non_basis) :
                state'.non_basis[p] < state'.a.cols /\ state'.non_basis[p] < Len(state'.c)]_vars

(* C29. The iteration counter is carried over from phase 1 into phase 2:   *)
(* the loop of phase 2 starts at the iteration phase 1 stopped at, so      *)
(* within one solve the pivots of the main loop over both phases never     *)
(* number more than max_iterations.                                        *)
C29_PivotsWithinMaxIterations ==
    /\ pivots <= max_iter
    /\ pc = "run_simplex" => iter = pivots /\ iter >= state.iteration

\* The loop of phase 2 starts at the last iteration the limit allows, the
\* earlier ones having been used by the pivots of phase 1.
C29_Witness ==
    /\ pc = "run_simplex" /\ phase = "phase2"
    /\ pivots >= 1 /\ iter = pivots
    /\ iter = max_iter - 1

\* The step is a call of the linear solve, returning.
LinearSolveReturns == solve_result = <<>> /\ solve_result' # <<>>

(* C30. The linear solve never modifies the matrix it is called on, and    *)
(* when it returns an error (rhs length mismatch or singular pivot) the    *)
(* rhs vector is left exactly as it was passed in; rhs is overwritten only *)
(* when the solve succeeds.                                                *)
C30_LinearSolveFrame ==
    [][LinearSolveReturns =>
          /\ matrix' = matrix
          /\ solve_result'[1].passed = rhs_buf
          /\ ~solve_result'[1].ok =>
                /\ solve_result'[1].err \in {"rhs length mismatch", "singular matrix"}
                /\ rhs_buf' = rhs_buf
          /\ rhs_buf' # rhs_buf => solve_result'[1].ok]_vars

\* The solve has failed on a singular matrix after eliminating its first
\* column, which changed the right-hand side of the augmented copy.
C30_Witness ==
    /\ solve_result # <<>>
    /\ ~solve_result[1].ok /\ solve_result[1].err = "singular matrix"
    /\ matrix.rows = 2 /\ Len(rhs_buf) = 2
    /\ Get(matrix, 0, 0) # Zero /\ Get(matrix, 1, 0) # Zero
    /\ rhs_buf[1] # Zero
    /\ rhs_buf = solve_result[1].passed
====
